---- MODULE Spec2Model ----
(***************************************************************************)
(* Bouncing balls (atyronesmith/bouncing-balls): the ball physics of       *)
(* pkg/physics/ball.go driven by the animation tick of pkg/ui/app.go.      *)
(*                                                                         *)
(* Numbers.  Every float32 of the program is a fixed-point integer in      *)
(* hundredths (Scale = 100): 1.5 is 150, a radius of 35 is 3500.  A        *)
(* product or quotient is rounded to the nearest hundredth, a square root  *)
(* is cut to the hundredth below.  The constants of the code with two      *)
(* decimals (0.98, 0.88, 0.8, 1.2, ...) are exact.                          *)
(***************************************************************************)
EXTENDS Integers, Sequences, FiniteSets, TLC

Scale == 100

Abs(x) == IF x < 0 THEN -x ELSE x

\* n / d for d > 0, rounded to the nearest integer, symmetric in the sign of n.
RoundDiv(n, d) ==
    IF n >= 0 THEN (2 * n + d) \div (2 * d) ELSE -((2 * (-n) + d) \div (2 * d))

\* float32 a * b
Mul(a, b) == RoundDiv(a * b, Scale)

\* float32 a / b (b # 0 wherever the code divides; see DivisorsNonZero)
Div(a, b) == IF b > 0 THEN RoundDiv(a * Scale, b) ELSE -RoundDiv(a * Scale, -b)

RECURSIVE SqrtIter(_, _, _)
\* the largest r in lo..hi-1 with r*r <= n, given lo*lo <= n < hi*hi
SqrtIter(n, lo, hi) ==
    IF hi - lo <= 1 THEN lo
    ELSE LET mid == (lo + hi) \div 2
         IN  IF mid * mid <= n THEN SqrtIter(n, mid, hi) ELSE SqrtIter(n, lo, mid)

ISqrt(n) == SqrtIter(n, 0, 46341)

\* float32(math.Sqrt(float64(dx*dx + dy*dy))); far apart, at a coarser grain
Dist(dx, dy) ==
    IF Abs(dx) < 30000 /\ Abs(dy) < 30000
    THEN ISqrt(dx * dx + dy * dy)
    ELSE 4 * ISqrt((Abs(dx) \div 4) * (Abs(dx) \div 4) + (Abs(dy) \div 4) * (Abs(dy) \div 4))

\* 100 * sin(0.3 * k), k = 0..79
SinTable ==
    << 0, 30, 56, 78, 93, 100, 97, 86, 68, 43, 14, -16, -44, -69, -87, -98,
       -100, -93, -77, -55, -28, 2, 31, 58, 79, 94, 100, 97, 85, 66, 41, 12,
       -17, -46, -70, -88, -98, -99, -92, -76, -54, -26, 3, 33, 59, 80, 94,
       100, 97, 85, 65, 40, 11, -19, -47, -71, -89, -98, -99, -91, -75, -52,
       -25, 5, 34, 61, 81, 95, 100, 96, 84, 64, 38, 9, -21, -49, -72, -90,
       -99, -99 >>

\* math.Sin of a jiggle phase, which is a multiple of 0.3
Sin(phase) == SinTable[(phase \div 30) + 1]

(***************************************************************************)
(* Program constants                                                       *)
(***************************************************************************)
BoundsWidth == 80000
BoundsHeight == 60000
ButtonArea == 5000
Pi == 314
JiggleDecay == 88
PhaseStep == 30
JiggleMin == 1
WallJiggleDiv == 800
CollisionJiggleDiv == 1200
JiggleScale == 80
Dampening == 98
ShrinkFactor == 80
MinRadius == 3500
ExplosionFrames == 30
NumBalls == 3

BallIds == 1..NumBalls

(***************************************************************************)
(* Ball                                                                    *)
(***************************************************************************)
triggerJiggle(b, intensity) ==
    [b EXCEPT !.JiggleAmplitude = Mul(Mul(intensity, b.OriginalRadius), JiggleScale),
              !.JigglePhase = 0]

triggerExplosion(b) ==
    IF b.IsExploding THEN b
    ELSE [b EXCEPT !.IsExploding = TRUE, !.ExplosionTimer = ExplosionFrames]

UpdateExplosion(b) ==
    IF ~b.IsExploding THEN b
    ELSE IF b.ExplosionTimer - 1 > 0
         THEN [b EXCEPT !.ExplosionTimer = b.ExplosionTimer - 1]
         ELSE [b EXCEPT !.ExplosionTimer = b.ExplosionTimer - 1, !.IsExploding = FALSE]

\* The radius part of UpdatePositionWithHuman: one step of the jiggle.  The
\* human's position moves only the iris, which is not modelled.  The decayed
\* amplitude is cut, not rounded, so that it falls at every step as the
\* float does.
UpdatePositionWithHuman(b) ==
    IF b.JiggleAmplitude > JiggleMin
    THEN LET jiggleOffset == Mul(Sin(b.JigglePhase), b.JiggleAmplitude)
             amp == (b.JiggleAmplitude * JiggleDecay) \div Scale
         IN  IF amp < JiggleMin
             THEN [b EXCEPT !.JigglePhase = b.JigglePhase + PhaseStep,
                            !.JiggleAmplitude = 0,
                            !.Radius = b.OriginalRadius]
             ELSE [b EXCEPT !.JigglePhase = b.JigglePhase + PhaseStep,
                            !.JiggleAmplitude = amp,
                            !.Radius = b.OriginalRadius + jiggleOffset]
    ELSE [b EXCEPT !.Radius = b.OriginalRadius]

UpdatePosition(b) == UpdatePositionWithHuman(b)

\* BounceX with a strict wall test: a ball whose edge is exactly on the wall
\* is not turned round
BounceXStrict(b) ==
    IF b.X - b.Radius < 0 \/ b.X + b.Radius > BoundsWidth
    THEN LET v == [b EXCEPT !.VX = -b.VX]
             j == triggerJiggle(v, Div(Abs(v.VX), WallJiggleDiv))
         IN  IF j.X - j.Radius < 0 THEN [j EXCEPT !.X = j.Radius]
             ELSE [j EXCEPT !.X = BoundsWidth - j.Radius]
    ELSE b

\* Left and right walls of Update
BounceX(b) ==
    IF b.X - b.Radius <= 0 \/ b.X + b.Radius >= BoundsWidth
    THEN LET v == [b EXCEPT !.VX = -b.VX]
             j == triggerJiggle(v, Div(Abs(v.VX), WallJiggleDiv))
         IN  IF j.X - j.Radius < 0 THEN [j EXCEPT !.X = j.Radius]
             ELSE IF j.X + j.Radius > BoundsWidth
                  THEN [j EXCEPT !.X = BoundsWidth - j.Radius]
                  ELSE j
    ELSE b

\* Top and bottom walls of Update
BounceY(b) ==
    IF b.Y - b.Radius <= ButtonArea \/ b.Y + b.Radius >= BoundsHeight - ButtonArea
    THEN LET v == [b EXCEPT !.VY = -b.VY]
             j == triggerJiggle(v, Div(Abs(v.VY), WallJiggleDiv))
         IN  IF j.Y - j.Radius < ButtonArea THEN [j EXCEPT !.Y = ButtonArea + j.Radius]
             ELSE IF j.Y + j.Radius > BoundsHeight - ButtonArea
                  THEN [j EXCEPT !.Y = BoundsHeight - ButtonArea - j.Radius]
                  ELSE j
    ELSE b

Update(b) ==
    IF ~b.IsAnimated THEN b
    ELSE LET moved == UpdatePosition(BounceY(BounceX(
                          [b EXCEPT !.X = b.X + b.VX, !.Y = b.Y + b.VY])))
         IN  IF moved.IsExploding THEN UpdateExplosion(moved) ELSE moved

\* CheckCollision that counts two balls that only touch as colliding
CheckCollisionTouching(bs, i, j) ==
    IF i = j THEN FALSE
    ELSE Dist(bs[i].X - bs[j].X, bs[i].Y - bs[j].Y) <= bs[i].Radius + bs[j].Radius

\* bs is the slice a.balls; a ball is the same ball as another when the
\* indices are equal (b == other compares the pointers).
CheckCollision(bs, i, j) ==
    IF i = j THEN FALSE
    ELSE Dist(bs[i].X - bs[j].X, bs[i].Y - bs[j].Y) < bs[i].Radius + bs[j].Radius

GetMass(b) == Mul(Mul(Pi, b.Radius), b.Radius)

shrinkBall(b, factor) ==
    LET scaled == Mul(b.Radius, factor)
        newRadius == IF scaled < MinRadius THEN MinRadius ELSE scaled
        newOriginalRadius ==
            IF scaled < MinRadius THEN MinRadius ELSE Mul(b.OriginalRadius, factor)
    IN  IF newRadius # b.Radius
        THEN [b EXCEPT !.Radius = newRadius, !.OriginalRadius = newOriginalRadius]
        ELSE b

\* CollisionNormal whose guard sets distance = 1 and forgets dx = 1
CollisionNormalNoDx(a, b) ==
    LET dx == a.X - b.X
        dy == a.Y - b.Y
        d0 == Dist(dx, dy)
        distance == IF d0 = 0 THEN Scale ELSE d0
    IN  [distance |-> distance, nx |-> Div(dx, distance), ny |-> Div(dy, distance)]

\* distance, nx, ny of HandleCollision, after the guard for distance == 0
CollisionNormal(a, b) ==
    LET dx0 == a.X - b.X
        dy == a.Y - b.Y
        d0 == Dist(dx0, dy)
        dx == IF d0 = 0 THEN Scale ELSE dx0
        distance == IF d0 = 0 THEN Scale ELSE d0
    IN  [distance |-> distance, nx |-> Div(dx, distance), ny |-> Div(dy, distance)]

\* v1n, v2n: the velocities along the collision normal
NormalVelocity(b, n) == Mul(b.VX, n.nx) + Mul(b.VY, n.ny)

\* the separation step of HandleCollision: <<a, b>> moved apart
Separate(a, b, n) ==
    LET overlap == (a.Radius + b.Radius) - n.distance
        m1 == GetMass(a)
        m2 == GetMass(b)
        totalMass == m1 + m2
        separationRatio1 == Div(m2, totalMass)
        separationRatio2 == Div(m1, totalMass)
    IN  << [a EXCEPT !.X = a.X + Mul(Mul(n.nx, overlap), separationRatio1),
                     !.Y = a.Y + Mul(Mul(n.ny, overlap), separationRatio1)],
           [b EXCEPT !.X = b.X - Mul(Mul(n.nx, overlap), separationRatio2),
                     !.Y = b.Y - Mul(Mul(n.ny, overlap), separationRatio2)] >>

\* v1_new = ((m1-m2)/(m1+m2)) * v1_old + ((2*m2)/(m1+m2)) * v2_old
ElasticNormal(m1, m2, v1n, v2n) ==
    Mul(Div(m1 - m2, m1 + m2), v1n) + Mul(Div(2 * m2, m1 + m2), v2n)

\* the elastic response of HandleCollision on the separated pair
Resolve(a, b, n) ==
    LET m1 == GetMass(a)
        m2 == GetMass(b)
        v1n == NormalVelocity(a, n)
        v2n == NormalVelocity(b, n)
        v1p_x == a.VX - Mul(v1n, n.nx)
        v1p_y == a.VY - Mul(v1n, n.ny)
        v2p_x == b.VX - Mul(v2n, n.nx)
        v2p_y == b.VY - Mul(v2n, n.ny)
        v1n_new == ElasticNormal(m1, m2, v1n, v2n)
        v2n_new == ElasticNormal(m2, m1, v2n, v1n)
        collisionIntensity == Div(Dist(v1n, v2n), CollisionJiggleDiv)
        a1 == [a EXCEPT !.VX = Mul(Mul(v1n_new, n.nx) + v1p_x, Dampening),
                        !.VY = Mul(Mul(v1n_new, n.ny) + v1p_y, Dampening)]
        b1 == [b EXCEPT !.VX = Mul(Mul(v2n_new, n.nx) + v2p_x, Dampening),
                        !.VY = Mul(Mul(v2n_new, n.ny) + v2p_y, Dampening)]
    IN  << shrinkBall(triggerExplosion(triggerJiggle(a1, collisionIntensity)), ShrinkFactor),
           shrinkBall(triggerExplosion(triggerJiggle(b1, collisionIntensity)), ShrinkFactor) >>

\* Separating with the comparison turned round
SeparatingFlipped(a, b, n) == NormalVelocity(a, n) - NormalVelocity(b, n) < 0

\* if v1n-v2n > 0: the balls are moving apart along the normal
Separating(a, b, n) == NormalVelocity(a, n) - NormalVelocity(b, n) > 0

\* a.HandleCollision(b) on the pair of ball records
CollidePair(a, b) ==
    LET n == CollisionNormal(a, b)
        sep == Separate(a, b, n)
    IN  IF Separating(a, b, n)
        THEN sep
        ELSE Resolve(sep[1], sep[2], n)

HandleCollision(bs, i, j) ==
    IF i = j THEN bs
    ELSE LET out == CollidePair(bs[i], bs[j])
         IN  [bs EXCEPT ![i] = out[1], ![j] = out[2]]

NewCustomBall(x, y, vx, vy, radius) ==
    UpdatePosition([X |-> x, Y |-> y, VX |-> vx, VY |-> vy, Radius |-> radius,
                    OriginalRadius |-> radius, IsAnimated |-> FALSE,
                    JiggleAmplitude |-> 0, JigglePhase |-> 0,
                    IsExploding |-> FALSE, ExplosionTimer |-> 0])

(***************************************************************************)
(* Human and Bullet (pkg/physics/human.go)                                 *)
(***************************************************************************)
HumanSpeed == 450
ShootCooldown == 15
RespawnFrames == 180
FiringFactor == 150
CollisionFactor == 60
DangerMargin == 12000
ApproachFactor == 80
AvoidWeight == 80
CenterWeight == 20
CenterFactor == 30
CenterDeadZone == 2000
ExtremeDanger == 70
ModerateDanger == 40
ExtremeBoost == 200
ModerateBoost == 150
BulletSpeed == 800
BulletRadius == 800
RepulsionStrength == 80
MaxBallSpeed == 800
BulletJiggle == 30
GridSize == 20
RespawnMargin == 1000
Infinity == 1000000

\* for t := float32(5); t <= 20; t += 5
Horizons == { 5, 10, 15, 20 }

NewHuman(x, y, size) ==
    [X |-> x, Y |-> y, Size |-> size, Speed |-> HumanSpeed,
     IsActive |-> TRUE, IsExploding |-> FALSE, RespawnTimer |-> 0, Deaths |-> 0,
     ShootTimer |-> 0, FiringRadius |-> Mul(size, FiringFactor)]

\* dx / distance and dy / distance.  A vector shorter than three units is
\* taken a hundred times longer first, which leaves the quotient as it is
\* and keeps the cut of the square root small beside the length.
UnitVector(dx, dy) ==
    LET small == Abs(dx) < 3 * Scale /\ Abs(dy) < 3 * Scale
        ex == IF small THEN dx * Scale ELSE dx
        ey == IF small THEN dy * Scale ELSE dy
        len == Dist(ex, ey)
    IN  << Div(ex, len), Div(ey, len) >>

HumanDistance(h, b) == Dist(h.X - b.X, h.Y - b.Y)

RECURSIVE ClosestTo(_, _, _)
\* for _, ball := range balls, over the first n balls: the index of the
\* closest animated ball so far (0 for nil) and minDistance
ClosestTo(h, bs, n) ==
    IF n = 0 THEN [index |-> 0, minDistance |-> Infinity]
    ELSE LET rest == ClosestTo(h, bs, n - 1)
             distance == HumanDistance(h, bs[n])
         IN  IF bs[n].IsAnimated /\ distance < rest.minDistance
             THEN [index |-> n, minDistance |-> distance]
             ELSE rest

findClosestBall(h, bs) == ClosestTo(h, bs, Len(bs)).index

DangerDistance(h, b) == h.Size + b.Radius + DangerMargin

\* A ball taken as approaching as soon as it is nearer at one of the frames
\* ahead than it is now
ApproachingAny(h, b) ==
    \E t \in Horizons :
        Dist(h.X - (b.X + b.VX * t), h.Y - (b.Y + b.VY * t)) < HumanDistance(h, b)

\* if futureDistance < distance*0.8, at one of the frames ahead
Approaching(h, b) ==
    LET limit == Mul(HumanDistance(h, b), ApproachFactor)
    IN  \E t \in Horizons :
            Dist(h.X - (b.X + b.VX * t), h.Y - (b.Y + b.VY * t)) < limit

\* A ball that adds to the avoidance vector
IsThreat(h, b) ==
    LET distance == HumanDistance(h, b)
    IN  /\ b.IsAnimated
        /\ distance < DangerDistance(h, b)
        /\ distance > 0
        /\ Approaching(h, b)

avoidanceStrength(h, b) ==
    LET ratio == Div(DangerDistance(h, b) - HumanDistance(h, b), DangerDistance(h, b))
    IN  Mul(ratio, ratio) * 2

\* totalAvoidanceX += (dx / distance) * avoidanceStrength, and the like
Push(unit, strength) ==
    [count |-> 1, strength |-> strength,
     x |-> Mul(unit[1], strength), y |-> Mul(unit[2], strength)]

\* What one ball adds to totalAvoidanceX, totalAvoidanceY and dangerCount,
\* and its avoidanceStrength
Avoidance(h, b) ==
    IF IsThreat(h, b)
    THEN Push(UnitVector(h.X - b.X, h.Y - b.Y), avoidanceStrength(h, b))
    ELSE [count |-> 0, strength |-> 0, x |-> 0, y |-> 0]

AddAvoidance(total, this) ==
    [count |-> total.count + this.count,
     strength |-> IF this.strength > total.strength THEN this.strength ELSE total.strength,
     x |-> total.x + this.x,
     y |-> total.y + this.y]

RECURSIVE AvoidanceTo(_, _, _)
\* for _, ball := range balls, over the first n balls
AvoidanceTo(h, bs, n) ==
    IF n = 0 THEN [count |-> 0, strength |-> 0, x |-> 0, y |-> 0]
    ELSE AddAvoidance(AvoidanceTo(h, bs, n - 1), Avoidance(h, bs[n]))

speedMultiplier(h, maxDanger) ==
    IF maxDanger > ExtremeDanger THEN Mul(h.Speed, ExtremeBoost)
    ELSE IF maxDanger > ModerateDanger THEN Mul(h.Speed, ModerateBoost)
    ELSE h.Speed

\* if dangerCount > 0 { average, times speedMultiplier }
AverageAvoidance(h, total) ==
    IF total.count > 0
    THEN [x |-> Mul(RoundDiv(total.x, total.count), speedMultiplier(h, total.strength)),
          y |-> Mul(RoundDiv(total.y, total.count), speedMultiplier(h, total.strength)),
          maxDanger |-> total.strength]
    ELSE [x |-> 0, y |-> 0, maxDanger |-> total.strength]

\* calculateAvoidance: the vector it returns and the maxDanger it saw
calculateAvoidance(h, bs) == AverageAvoidance(h, AvoidanceTo(h, bs, Len(bs)))

calculateCentering(h) ==
    LET dx == (BoundsWidth \div 2) - h.X
        dy == (BoundsHeight \div 2) - h.Y
        unit == UnitVector(dx, dy)
        centeringStrength == Mul(h.Speed, CenterFactor)
    IN  IF Dist(dx, dy) < CenterDeadZone THEN << 0, 0 >>
        ELSE << Mul(unit[1], centeringStrength), Mul(unit[2], centeringStrength) >>

\* totalForceX := avoidX*0.8 + centerX*0.2, and Y
CombineForces(avoid, center) ==
    << Mul(avoid.x, AvoidWeight) + Mul(center[1], CenterWeight),
       Mul(avoid.y, AvoidWeight) + Mul(center[2], CenterWeight) >>

\* if forceLength > h.Speed { scale the force to h.Speed }
LimitForce(h, force, forceLength) ==
    IF forceLength > h.Speed
    THEN << Mul(Div(force[1], forceLength), h.Speed),
            Mul(Div(force[2], forceLength), h.Speed) >>
    ELSE force

LimitedForce(h, force) == LimitForce(h, force, Dist(force[1], force[2]))

\* totalForceX, totalForceY of Human.Update, after the cut to h.Speed
TotalForce(h, bs) ==
    LimitedForce(h, CombineForces(calculateAvoidance(h, bs), calculateCentering(h)))

\* The human stopped at the left and right edges as it is at the top and
\* the bottom
keepWithinBoundsClamped(h) ==
    LET margin == h.Size \div 2
        x == IF h.X < -margin THEN -margin
             ELSE IF h.X > BoundsWidth + margin THEN BoundsWidth + margin
             ELSE h.X
        y == IF h.Y < margin THEN margin
             ELSE IF h.Y > BoundsHeight - margin THEN BoundsHeight - margin
             ELSE h.Y
    IN  [h EXCEPT !.X = x, !.Y = y]

keepWithinBounds(h) ==
    LET margin == h.Size \div 2
        x == IF h.X < -margin THEN BoundsWidth + margin
             ELSE IF h.X > BoundsWidth + margin THEN -margin
             ELSE h.X
        y == IF h.Y < margin THEN margin
             ELSE IF h.Y > BoundsHeight - margin THEN BoundsHeight - margin
             ELSE h.Y
    IN  [h EXCEPT !.X = x, !.Y = y]

\* h.X += totalForceX; h.Y += totalForceY
ApplyForce(h, force) == [h EXCEPT !.X = h.X + force[1], !.Y = h.Y + force[2]]

MoveHuman(h, bs) == ApplyForce(h, TotalForce(h, bs))

CheckCollisionWithBalls(h, bs) ==
    /\ h.IsActive
    /\ ~h.IsExploding
    /\ \E i \in DOMAIN bs :
          /\ bs[i].IsAnimated
          /\ HumanDistance(h, bs[i]) < Mul(h.Size, CollisionFactor) + bs[i].Radius

\* Explode that leaves the human active
ExplodeActive(h) ==
    IF h.IsExploding THEN h
    ELSE [h EXCEPT !.IsExploding = TRUE,
                   !.RespawnTimer = RespawnFrames, !.Deaths = h.Deaths + 1]

Explode(h) ==
    IF h.IsExploding THEN h
    ELSE [h EXCEPT !.IsExploding = TRUE, !.IsActive = FALSE,
                   !.RespawnTimer = RespawnFrames, !.Deaths = h.Deaths + 1]

\* h.RespawnTimer-- and, at zero, Respawn in the middle of the arena
Respawn(h) ==
    [h EXCEPT !.X = BoundsWidth \div 2, !.Y = BoundsHeight \div 2,
              !.IsExploding = FALSE, !.IsActive = TRUE, !.RespawnTimer = 0]

\* UpdateExplosion with the respawn one tick late
HumanUpdateExplosionLate(h) ==
    IF ~h.IsExploding THEN h
    ELSE IF h.RespawnTimer - 1 < 0
         THEN Respawn([h EXCEPT !.RespawnTimer = h.RespawnTimer - 1])
         ELSE [h EXCEPT !.RespawnTimer = h.RespawnTimer - 1]

HumanUpdateExplosion(h) ==
    IF ~h.IsExploding THEN h
    ELSE IF h.RespawnTimer - 1 <= 0
         THEN Respawn([h EXCEPT !.RespawnTimer = h.RespawnTimer - 1])
         ELSE [h EXCEPT !.RespawnTimer = h.RespawnTimer - 1]

\* The candidate of findSafestRespawnLocation at grid index (i, j); the 50
\* and 100 of the source are the button area and twice the button area
Candidate(h, i, j) ==
    LET margin == h.Size + RespawnMargin
    IN  << margin + RoundDiv(i * (BoundsWidth - 2 * margin), GridSize - 1),
           ButtonArea + margin
             + RoundDiv(j * (BoundsHeight - 2 * ButtonArea - 2 * margin), GridSize - 1) >>

RECURSIVE MinClearanceTo(_, _, _, _)
\* minDistanceToBalls over the first n balls
MinClearanceTo(h, bs, c, n) ==
    IF n = 0 THEN Infinity
    ELSE LET rest == MinClearanceTo(h, bs, c, n - 1)
             clearance == Dist(c[1] - bs[n].X, c[2] - bs[n].Y) - bs[n].Radius - h.Size
         IN  IF bs[n].IsAnimated /\ clearance < rest THEN clearance ELSE rest

MinClearance(h, bs, c) == MinClearanceTo(h, bs, c, Len(bs))

RECURSIVE ScanRowLeast(_, _, _, _, _)
\* The row loop keeping the candidate with the least clearance
ScanRowLeast(h, bs, i, j, best) ==
    IF j = GridSize THEN best
    ELSE IF MinClearance(h, bs, Candidate(h, i, j)) < best.maxMinDistance
         THEN ScanRowLeast(h, bs, i, j + 1,
                           [at |-> Candidate(h, i, j),
                            maxMinDistance |-> MinClearance(h, bs, Candidate(h, i, j))])
         ELSE ScanRowLeast(h, bs, i, j + 1, best)

RECURSIVE ScanRow(_, _, _, _, _)
\* for j := 0; j < gridSize; j++, from j on: best is bestX, bestY and
\* maxMinDistance so far
ScanRow(h, bs, i, j, best) ==
    IF j = GridSize THEN best
    ELSE IF MinClearance(h, bs, Candidate(h, i, j)) > best.maxMinDistance
         THEN ScanRow(h, bs, i, j + 1,
                      [at |-> Candidate(h, i, j),
                       maxMinDistance |-> MinClearance(h, bs, Candidate(h, i, j))])
         ELSE ScanRow(h, bs, i, j + 1, best)

RECURSIVE ScanGrid(_, _, _, _)
\* for i := 0; i < gridSize; i++, from i on
ScanGrid(h, bs, i, best) ==
    IF i = GridSize THEN best
    ELSE ScanGrid(h, bs, i + 1, ScanRow(h, bs, i, 0, best))

findSafestRespawnLocation(h, bs) ==
    ScanGrid(h, bs, 0, [at |-> << BoundsWidth \div 2, BoundsHeight \div 2 >>,
                        maxMinDistance |-> 0]).at

RespawnWithBalls(h, bs) ==
    LET safe == findSafestRespawnLocation(h, bs)
    IN  [h EXCEPT !.X = safe[1], !.Y = safe[2],
                  !.IsExploding = FALSE, !.IsActive = TRUE, !.RespawnTimer = 0]

\* A bullet whose start is its target has 0/0 for velocity: NaN marks it.
\* Such a bullet has no position any more after its first step, is never
\* found off screen and never found on a ball.
NewBullet(startX, startY, targetX, targetY) ==
    LET dx == targetX - startX
        dy == targetY - startY
        unit == UnitVector(dx, dy)
    IN  IF dx = 0 /\ dy = 0
        THEN [X |-> startX, Y |-> startY, VX |-> 0, VY |-> 0, IsActive |-> TRUE, NaN |-> TRUE]
        ELSE [X |-> startX, Y |-> startY,
              VX |-> Mul(unit[1], BulletSpeed), VY |-> Mul(unit[2], BulletSpeed),
              IsActive |-> TRUE, NaN |-> FALSE]

OffScreen(bullet) ==
    /\ ~bullet.NaN
    /\ \/ bullet.X < 0 \/ bullet.X > BoundsWidth
       \/ bullet.Y < 0 \/ bullet.Y > BoundsHeight

UpdateBullets(bullets) ==
    LET moved == [i \in 1..Len(bullets) |->
                    IF bullets[i].IsActive /\ ~bullets[i].NaN
                    THEN [bullets[i] EXCEPT !.X = bullets[i].X + bullets[i].VX,
                                            !.Y = bullets[i].Y + bullets[i].VY]
                    ELSE bullets[i]]
        Stays(bullet) == ~(bullet.IsActive /\ OffScreen(bullet))
    IN  SelectSeq(moved, Stays)

\* The bullet of ShootAtTarget; (cos, sin) of the angle to the target is the
\* unit vector to it, and (1, 0) when the target is the human's own position
ShootAtTarget(h, targetX, targetY) ==
    LET dx == targetX - h.X
        dy == targetY - h.Y
        dir == IF dx = 0 /\ dy = 0 THEN << Scale, 0 >> ELSE UnitVector(dx, dy)
    IN  NewBullet(h.X + Mul(dir[1], h.FiringRadius), h.Y + Mul(dir[2], h.FiringRadius),
                  targetX, targetY)

\* UpdateShooting: the human, its bullets, and whether it shot
UpdateShooting(h, bullets, bs) ==
    LET closestBall == findClosestBall(h, bs)
        same == [human |-> h, bullets |-> bullets, shot |-> FALSE]
    IN  IF ~h.IsActive \/ h.IsExploding THEN same
        ELSE IF h.ShootTimer > 0
             THEN [same EXCEPT !.human = [h EXCEPT !.ShootTimer = h.ShootTimer - 1]]
        ELSE IF closestBall = 0 THEN same
        ELSE [human |-> [h EXCEPT !.ShootTimer = ShootCooldown],
              bullets |-> Append(bullets, ShootAtTarget(h, bs[closestBall].X, bs[closestBall].Y)),
              shot |-> TRUE]

BulletHits(bullet, b) ==
    /\ b.IsAnimated
    /\ ~bullet.NaN
    /\ Dist(bullet.X - b.X, bullet.Y - b.Y) < b.Radius + BulletRadius

\* ball.VX += repelX * repulsionStrength, and Y
PushBall(b, repel) ==
    [b EXCEPT !.VX = b.VX + Mul(repel[1], RepulsionStrength),
              !.VY = b.VY + Mul(repel[2], RepulsionStrength)]

\* The speed of a struck ball left as the push made it
LimitSpeedNone(b, currentSpeed) == b

\* if currentSpeed > maxSpeed { scale the velocity to maxSpeed }
LimitSpeed(b, currentSpeed) ==
    IF currentSpeed > MaxBallSpeed
    THEN [b EXCEPT !.VX = Mul(Div(b.VX, currentSpeed), MaxBallSpeed),
                   !.VY = Mul(Div(b.VY, currentSpeed), MaxBallSpeed)]
    ELSE b

LimitedSpeed(b) == LimitSpeed(b, Dist(b.VX, b.VY))

\* The ball a bullet has hit, pushed away from the bullet
Repel(bullet, b) ==
    IF bullet.X = b.X /\ bullet.Y = b.Y THEN b
    ELSE triggerJiggle(LimitedSpeed(PushBall(b, UnitVector(b.X - bullet.X, b.Y - bullet.Y))),
                       BulletJiggle)

RECURSIVE BulletLoop(_, _, _)
\* for i := len(h.Bullets) - 1; i >= 0; i--, from bullet i down
BulletLoop(bullets, bs, i) ==
    IF i = 0 THEN [bullets |-> bullets, balls |-> bs]
    ELSE LET bullet == bullets[i]
             hit == { j \in DOMAIN bs : bullet.IsActive /\ BulletHits(bullet, bs[j]) }
             first == CHOOSE j \in hit : \A j2 \in hit : j <= j2
         IN  IF hit = {} THEN BulletLoop(bullets, bs, i - 1)
             ELSE BulletLoop(SubSeq(bullets, 1, i - 1) \o SubSeq(bullets, i + 1, Len(bullets)),
                             [bs EXCEPT ![first] = Repel(bullet, bs[first])],
                             i - 1)

CheckBulletCollisions(bullets, bs) == BulletLoop(bullets, bs, Len(bullets))

(***************************************************************************)
(* Dragon (pkg/physics/dragon.go)                                          *)
(***************************************************************************)
DragonSpeed == 200
FollowDistance == 8000
ProtectRadius == 15000
DriftDuration == 60
SpinTarget == 2
InitialMass == 7000
MinMass == 100000
DragonReach == 40
MovingHuman == 50
DeflectionStrength == 80
DragonShrink == 50
DragonJiggle == 50
VelocityLoss == 50
BounceBack == 30
Friction == 95
SpinSteps == 10
InterceptBoost == 120
FollowBand == 2000
ApproachGain == 10
RetreatFactor == 30
HoldFactor == 90
WallBounce == 50

\* SpinAngle counts the steps of 2*Pi/10 taken in the current rotation: ten
\* float32 additions of 2*Pi/10 reach float32(2*Pi), and what the subtraction
\* leaves is less than a millionth.
NewDragon(x, y, size) ==
    [X |-> x, Y |-> y, VX |-> 0, VY |-> 0, Size |-> size, Mass |-> InitialMass,
     Speed |-> DragonSpeed, FollowDistance |-> FollowDistance,
     ProtectRadius |-> ProtectRadius, IsActive |-> TRUE,
     LastHumanX |-> x, LastHumanY |-> y, HumanVX |-> 0, HumanVY |-> 0,
     IsDrifting |-> FALSE, DriftTimer |-> 0, DriftDuration |-> DriftDuration,
     IsSpinning |-> FALSE, SpinAngle |-> 0, SpinCount |-> 0, SpinTarget |-> SpinTarget]

updateHumanVelocity(d, h) ==
    IF ~h.IsActive THEN [d EXCEPT !.HumanVX = 0, !.HumanVY = 0]
    ELSE [d EXCEPT !.HumanVX = h.X - d.LastHumanX, !.HumanVY = h.Y - d.LastHumanY,
                   !.LastHumanX = h.X, !.LastHumanY = h.Y]

RECURSIVE LargestRadiusTo(_, _)
\* FindLargestBall over the first n balls: maxRadius, 0 when no radius is
\* above zero
LargestRadiusTo(bs, n) ==
    IF n = 0 THEN 0
    ELSE LET rest == LargestRadiusTo(bs, n - 1)
         IN  IF bs[n].Radius > rest THEN bs[n].Radius ELSE rest

\* The mass UpdateMass finds for a largest radius
MassFor(d, radius) ==
    IF radius = 0 THEN d.Mass
    ELSE IF Mul(Mul(Mul(Pi, radius), radius), 2 * Scale) < MinMass THEN MinMass
    ELSE Mul(Mul(Mul(Pi, radius), radius), 2 * Scale)

UpdateMass(d, bs) == [d EXCEPT !.Mass = MassFor(d, LargestRadiusTo(bs, Len(bs)))]

\* if distance < d.Size*0.4 + ball.Radius, for an animated ball
DragonTouches(d, b) ==
    /\ b.IsAnimated
    /\ Dist(d.X - b.X, d.Y - b.Y) < Mul(d.Size, DragonReach) + b.Radius

\* Dragon.CheckCollisionWithBalls: the index of the first ball the dragon is
\* on, 0 for nil
DragonCollision(d, bs) ==
    IF ~d.IsActive \/ \A i \in DOMAIN bs : ~DragonTouches(d, bs[i]) THEN 0
    ELSE CHOOSE i \in DOMAIN bs :
             /\ DragonTouches(d, bs[i])
             /\ \A j \in DOMAIN bs : j < i => ~DragonTouches(d, bs[j])

\* impulse := 2.0 * relativeSpeed / (1.0 + float32(ballMass)/d.Mass)
Impulse(d, b, normal) ==
    Div(2 * (Mul(d.VX - b.VX, normal[1]) + Mul(d.VY - b.VY, normal[2])),
        Scale + Div(GetMass(b), d.Mass))

\* deflectDx, deflectDy: against the human's movement, or away from a
\* human that hardly moves
DeflectFor(d, b, h, humanSpeed) ==
    IF humanSpeed > MovingHuman
    THEN << -Div(d.HumanVX, humanSpeed), -Div(d.HumanVY, humanSpeed) >>
    ELSE IF b.X = h.X /\ b.Y = h.Y THEN << 0, 0 >>
    ELSE UnitVector(b.X - h.X, b.Y - h.Y)

Deflect(d, b, h) == DeflectFor(d, b, h, Dist(d.HumanVX, d.HumanVY))

\* finalDx, finalDy, not yet normalised
HalfSum(normal, deflect) ==
    << Mul(normal[1] + deflect[1], 50), Mul(normal[2] + deflect[2], 50) >>

\* ball.VX += finalDx * deflectionStrength, if finalDistance > 0
Deflected(b, final, strength) ==
    IF final = << 0, 0 >> THEN b
    ELSE [b EXCEPT !.VX = b.VX + Mul(UnitVector(final[1], final[2])[1], strength),
                   !.VY = b.VY + Mul(UnitVector(final[1], final[2])[2], strength)]

\* ball.VX *= 0.5; ball.VY *= 0.5
Slowed(b) == [b EXCEPT !.VX = Mul(b.VX, VelocityLoss), !.VY = Mul(b.VY, VelocityLoss)]

\* The ball after HandleBallCollision, given the collision normal and the
\* impulse
StruckBall(d, b, h, normal, impulse) ==
    Slowed(triggerJiggle(shrinkBall(Deflected(b, HalfSum(normal, Deflect(d, b, h)),
                                              Mul(impulse, DeflectionStrength)),
                                    DragonShrink),
                         DragonJiggle))

\* d.VX -= normalizedDx * dragonBounce, and the drift mode entered
Drifting(d, normal, dragonBounce) ==
    [d EXCEPT !.VX = d.VX - Mul(normal[1], dragonBounce),
              !.VY = d.VY - Mul(normal[2], dragonBounce),
              !.IsDrifting = TRUE, !.DriftTimer = d.DriftDuration \div 2,
              !.IsSpinning = FALSE, !.SpinAngle = 0, !.SpinCount = 0]

\* dragonBounce := impulse * float32(ballMass) / d.Mass * 0.3
DragonBounce(d, b, impulse) == Mul(Div(Mul(impulse, GetMass(b)), d.Mass), BounceBack)

Collided(d, b, h, normal, impulse) ==
    [dragon |-> Drifting(d, normal, DragonBounce(d, b, impulse)),
     ball |-> StruckBall(d, b, h, normal, impulse)]

CollidedAlong(d, b, h, normal) == Collided(d, b, h, normal, Impulse(d, b, normal))

\* HandleBallCollision: the dragon and the ball after it
HandleBallCollision(d, b, h) ==
    IF d.X = b.X /\ d.Y = b.Y THEN [dragon |-> d, ball |-> b]
    ELSE CollidedAlong(d, b, h, UnitVector(d.X - b.X, d.Y - b.Y))

\* updateDrifting that leaves the dragon its velocity when the drift ends
updateDriftingOn(d) ==
    IF d.DriftTimer - 1 <= 0
    THEN [d EXCEPT !.DriftTimer = d.DriftTimer - 1, !.IsDrifting = FALSE,
                   !.VX = Mul(d.VX, Friction), !.VY = Mul(d.VY, Friction),
                   !.IsSpinning = TRUE, !.SpinAngle = 0, !.SpinCount = 0]
    ELSE [d EXCEPT !.DriftTimer = d.DriftTimer - 1,
                   !.VX = Mul(d.VX, Friction), !.VY = Mul(d.VY, Friction)]

updateDrifting(d) ==
    IF d.DriftTimer - 1 <= 0
    THEN [d EXCEPT !.DriftTimer = d.DriftTimer - 1, !.IsDrifting = FALSE,
                   !.VX = 0, !.VY = 0,
                   !.IsSpinning = TRUE, !.SpinAngle = 0, !.SpinCount = 0]
    ELSE [d EXCEPT !.DriftTimer = d.DriftTimer - 1,
                   !.VX = Mul(d.VX, Friction), !.VY = Mul(d.VY, Friction)]

updateSpinning(d) ==
    IF d.SpinAngle + 1 >= SpinSteps
    THEN IF d.SpinCount + 1 >= d.SpinTarget
         THEN [d EXCEPT !.IsSpinning = FALSE, !.SpinAngle = 0, !.SpinCount = 0]
         ELSE [d EXCEPT !.SpinAngle = d.SpinAngle + 1 - SpinSteps,
                        !.SpinCount = d.SpinCount + 1]
    ELSE [d EXCEPT !.SpinAngle = d.SpinAngle + 1]

\* FindThreateningBalls without its test of IsAnimated
IsThreateningStopped(d, b, h) ==
    /\ h.IsActive
    /\ ~(Dist(h.X - b.X, h.Y - b.Y) > d.ProtectRadius)
    /\ b.VX * (h.X - b.X) + b.VY * (h.Y - b.Y) > 0

\* FindThreateningBalls: ball b is appended to threateningBalls
IsThreatening(d, b, h) ==
    /\ h.IsActive
    /\ b.IsAnimated
    /\ ~(Dist(h.X - b.X, h.Y - b.Y) > d.ProtectRadius)
    /\ b.VX * (h.X - b.X) + b.VY * (h.Y - b.Y) > 0

RECURSIVE ClosestThreatTo(_, _, _, _)
\* FindClosestThreat over the threatening balls among the first n: the index
\* of the closest to the dragon (0 for nil) and minDistance
ClosestThreatTo(d, bs, h, n) ==
    IF n = 0 THEN [index |-> 0, minDistance |-> Infinity]
    ELSE LET rest == ClosestThreatTo(d, bs, h, n - 1)
             distance == Dist(bs[n].X - d.X, bs[n].Y - d.Y)
         IN  IF IsThreatening(d, bs[n], h) /\ distance < rest.minDistance
             THEN [index |-> n, minDistance |-> distance]
             ELSE rest

FindClosestThreat(d, bs, h) == ClosestThreatTo(d, bs, h, Len(bs)).index

interceptBall(d, b) ==
    IF b.X = d.X /\ b.Y = d.Y THEN d
    ELSE [d EXCEPT !.VX = Mul(Mul(UnitVector(b.X - d.X, b.Y - d.Y)[1], d.Speed), InterceptBoost),
                   !.VY = Mul(Mul(UnitVector(b.X - d.X, b.Y - d.Y)[2], d.Speed), InterceptBoost)]

\* moveSpeed := (distance - d.FollowDistance) * 0.1, at most d.Speed
MoveSpeed(d, distance) ==
    IF Mul(distance - d.FollowDistance, ApproachGain) > d.Speed THEN d.Speed
    ELSE Mul(distance - d.FollowDistance, ApproachGain)

FollowAt(d, unit, distance) ==
    IF distance > d.FollowDistance + FollowBand
    THEN [d EXCEPT !.VX = Mul(unit[1], MoveSpeed(d, distance)),
                   !.VY = Mul(unit[2], MoveSpeed(d, distance))]
    ELSE IF distance < d.FollowDistance - FollowBand
    THEN [d EXCEPT !.VX = Mul(Mul(-unit[1], d.Speed), RetreatFactor),
                   !.VY = Mul(Mul(-unit[2], d.Speed), RetreatFactor)]
    ELSE [d EXCEPT !.VX = Mul(d.VX, HoldFactor), !.VY = Mul(d.VY, HoldFactor)]

followHuman(d, h) ==
    IF h.X = d.X /\ h.Y = d.Y THEN d
    ELSE FollowAt(d, UnitVector(h.X - d.X, h.Y - d.Y), Dist(h.X - d.X, h.Y - d.Y))

Steer(d, bs, h, closestThreat) ==
    IF closestThreat # 0 THEN interceptBall(d, bs[closestThreat]) ELSE followHuman(d, h)

updateProtecting(d, bs, h) ==
    IF ~h.IsActive THEN [d EXCEPT !.VX = 0, !.VY = 0]
    ELSE Steer(d, bs, h, FindClosestThreat(d, bs, h))

\* The walls of Dragon.keepWithinBounds with the velocity turned round at
\* full speed
DragonKeepWithinBoundsElastic(d) ==
    [d EXCEPT
        !.X = IF d.X < d.Size \div 2 THEN d.Size \div 2
              ELSE IF d.X > BoundsWidth - d.Size \div 2 THEN BoundsWidth - d.Size \div 2
              ELSE d.X,
        !.VX = IF d.X < d.Size \div 2 /\ d.VX < 0 THEN -d.VX
               ELSE IF ~(d.X < d.Size \div 2) /\ d.X > BoundsWidth - d.Size \div 2 /\ d.VX > 0
                    THEN -d.VX
               ELSE d.VX,
        !.Y = IF d.Y < ButtonArea + d.Size \div 2 THEN ButtonArea + d.Size \div 2
              ELSE IF d.Y > BoundsHeight - ButtonArea - d.Size \div 2
                   THEN BoundsHeight - ButtonArea - d.Size \div 2
              ELSE d.Y,
        !.VY = IF d.Y < ButtonArea + d.Size \div 2 /\ d.VY < 0 THEN -d.VY
               ELSE IF ~(d.Y < ButtonArea + d.Size \div 2)
                       /\ d.Y > BoundsHeight - ButtonArea - d.Size \div 2 /\ d.VY > 0
                    THEN -d.VY
               ELSE d.VY]

\* Dragon.keepWithinBounds
DragonKeepWithinBounds(d) ==
    [d EXCEPT
        !.X = IF d.X < d.Size \div 2 THEN d.Size \div 2
              ELSE IF d.X > BoundsWidth - d.Size \div 2 THEN BoundsWidth - d.Size \div 2
              ELSE d.X,
        !.VX = IF d.X < d.Size \div 2 /\ d.VX < 0 THEN Mul(-d.VX, WallBounce)
               ELSE IF ~(d.X < d.Size \div 2) /\ d.X > BoundsWidth - d.Size \div 2 /\ d.VX > 0
                    THEN Mul(-d.VX, WallBounce)
               ELSE d.VX,
        !.Y = IF d.Y < ButtonArea + d.Size \div 2 THEN ButtonArea + d.Size \div 2
              ELSE IF d.Y > BoundsHeight - ButtonArea - d.Size \div 2
                   THEN BoundsHeight - ButtonArea - d.Size \div 2
              ELSE d.Y,
        !.VY = IF d.Y < ButtonArea + d.Size \div 2 /\ d.VY < 0 THEN Mul(-d.VY, WallBounce)
               ELSE IF ~(d.Y < ButtonArea + d.Size \div 2)
                       /\ d.Y > BoundsHeight - ButtonArea - d.Size \div 2 /\ d.VY > 0
                    THEN Mul(-d.VY, WallBounce)
               ELSE d.VY]

\* d.X += d.VX; d.Y += d.VY
DragonMove(d) == [d EXCEPT !.X = d.X + d.VX, !.Y = d.Y + d.VY]

\* if d.IsDrifting { updateDrifting } else if d.IsSpinning { updateSpinning }
\* else { updateProtecting }
Behave(d, bs, h) ==
    IF d.IsDrifting THEN updateDrifting(d)
    ELSE IF d.IsSpinning THEN updateSpinning(d)
    ELSE updateProtecting(d, bs, h)

\* The second half of Dragon.Update, after the collision check; moved is the
\* dragon as keepWithinBounds finds it
Finish(d, bs, h, struck) ==
    [dragon |-> DragonKeepWithinBounds(DragonMove(Behave(d, bs, h))),
     balls |-> bs, struck |-> struck, moved |-> DragonMove(Behave(d, bs, h))]

AfterCollision(hit, bs, h, struck) ==
    Finish(hit.dragon, [bs EXCEPT ![struck] = hit.ball], h, struck)

\* The collision check of Dragon.Update on the dragon with its mass updated
CheckAndFinish(d, bs, h, struck) ==
    IF d.IsDrifting \/ struck = 0 THEN Finish(d, bs, h, 0)
    ELSE AfterCollision(HandleBallCollision(d, bs[struck], h), bs, h, struck)

Tracked(d, bs, h) == CheckAndFinish(d, bs, h, DragonCollision(d, bs))

\* Dragon.Update: the dragon, the balls, and the index of the ball that
\* HandleBallCollision was called on (0 for none)
DragonUpdate(d, bs, h) ==
    IF ~d.IsActive THEN [dragon |-> d, balls |-> bs, struck |-> 0, moved |-> d]
    ELSE Tracked(UpdateMass(updateHumanVelocity(d, h), bs), bs, h)

(***************************************************************************)
(* The application: three balls and the ticker goroutine of                *)
(* App.startAnimation.  One tick is the steps                               *)
(*   idle -Update-> position -UpdatePositionWithHuman-> collide            *)
(*        -pair (1,2)-> -pair (1,3)-> -pair (2,3)-> human -human's part->  *)
(*        dragon -Dragon.Update-> idle,                                    *)
(* and prev holds the balls as they were before the last step.             *)
(***************************************************************************)
VARIABLES
    balls,    \* a.balls: ball id -> Ball
    pc,       \* where the ticker goroutine is: "idle", "position", "collide", "human",
              \* "dragon"
    k,        \* in "collide": the index in Pairs of the next pair
    prev,     \* balls before the last step
    op,       \* the last step taken
    pair,     \* the pair the last collision step looked at
    ticks,    \* ticks started
    presses,  \* button presses
    human,    \* a.human
    bullets,  \* a.human.Bullets
    hprev,    \* human before the last human step or button
    bprev,    \* bullets before the last human step
    ev,       \* what the last human step did: shot, died, respawned, new bullet
    sinceShot,   \* human steps since the last shot, -1 before the first
    sinceDeath,  \* human steps since the last explosion, -1 before the first
    horizon,  \* ticks the run lasts
    dragon,   \* a.dragon
    dprev,    \* dragon before the last dragon step or button
    struck    \* the ball the last dragon step called HandleBallCollision on, 0 for none

vars == << balls, pc, k, prev, op, pair, ticks, presses,
           human, bullets, hprev, bprev, ev, sinceShot, sinceDeath, horizon,
           dragon, dprev, struck >>

\* What every step but the human's and Reset All leaves alone
hvars == << human, bullets, hprev, bprev, ev, sinceShot, sinceDeath, horizon >>

\* What every step but the dragon's and Reset All leaves alone
dvars == << dragon, dprev, struck >>

MaxTicks == 2
MaxPresses == 1

\* No bullet: what ev.new holds after a human step without a shot
NoBullet == [X |-> 0, Y |-> 0, VX |-> 0, VY |-> 0, IsActive |-> FALSE, NaN |-> FALSE]

NoEvent == [shot |-> FALSE, died |-> FALSE, respawned |-> FALSE, new |-> NoBullet]

\* The human of Run
Human1 == NewHuman(40000, 30000, 3500)

\* The dragon of Run
Dragon1 == NewDragon(20000, 20000, 4000)

\* for i := 0..; for j := i+1..: the order in which a tick visits the pairs
Pairs == << <<1, 2>>, <<1, 3>>, <<2, 3>> >>

\* startAnimation: every ball is animated
Animate(b) == [b EXCEPT !.IsAnimated = TRUE]

\* The balls of Run
Ball1 == NewCustomBall(10000, 10000, 150, 120, 3000)
Ball2 == NewCustomBall(30000, 20000, -120, 180, 2500)
Ball3 == NewCustomBall(50000, 15000, -180, -140, 3500)

\* Velocities a ball can have, Run's among them
Velocities == { <<150, 120>>, <<-120, 180>>, <<-150, 0>>, <<500, 0>>, <<-500, 0>>, <<0, 0>> }

\* A ball near the walls: about to touch, touching exactly, and well inside
WallXs == { 3100, 3150, 40000, 76900 }
WallYs == { 8100, 30000, 51900 }

\* Where a second ball lies relative to the first: on it, one step from being
\* on it, overlapping it on an axis or obliquely, touching it, far from it
Offsets == { <<0, 0>>, <<1000, 0>>, <<-1000, 0>>, <<5000, 0>>, <<-5000, 0>>,
             <<5500, 0>>, <<0, 5000>>, <<3000, 4000>>, <<-3000, -4000>>,
             <<20000, 10000>> }

\* A ball has the radius Run gave it until its first collision, then 35
RadiiPairs == { <<3000, 2500>>, <<3500, 3500>> }

\* A ball alone at the walls, the other two where Run puts them
WallScenes ==
    { << NewCustomBall(x, y, vx, vy, r), Ball2, Ball3 >> :
        x \in WallXs, y \in WallYs, vx \in {-150, 150}, vy \in {-120, 120},
        r \in {3000, 3500} }

\* Two balls meeting in the middle, the third far away or on the first
PairScenes ==
    { << NewCustomBall(40000, 30000, v1[1], v1[2], rr[1]),
         NewCustomBall(40000 + o[1], 30000 + o[2], v2[1], v2[2], rr[2]),
         NewCustomBall(40000 + o3[1], 30000 + o3[2], -180, -140, 3500) >> :
        v1 \in Velocities, v2 \in Velocities, o \in Offsets, rr \in RadiiPairs,
        o3 \in { <<10000, -15000>>, <<4000, 3000>> } }

\* Two balls meeting at the left wall, inside the walls both: the collision
\* leaves the first larger than the room it has
WallPairScenes ==
    { << NewCustomBall(x, 30000, vx, -120, 3000),
         NewCustomBall(x, 25500, 0, 180, 2500),
         Ball3 >> :
        x \in { 3050, 3300 }, vx \in { 50, 150 } }

Scenes == WallScenes \cup PairScenes \cup WallPairScenes

Init ==
    /\ \E scene \in Scenes : balls = [i \in BallIds |-> Animate(scene[i])]
    /\ pc = "idle"
    /\ k = 1
    /\ prev = balls
    /\ op = "init"
    /\ pair = <<1, 2>>
    /\ ticks = 0
    /\ presses = 0
    /\ human = Human1
    /\ bullets = << >>
    /\ hprev = human
    /\ bprev = bullets
    /\ ev = NoEvent
    /\ sinceShot = -1
    /\ sinceDeath = -1
    /\ horizon = MaxTicks
    /\ dragon = Dragon1
    /\ dprev = dragon
    /\ struck = 0

\* for _, ball := range a.balls { ball.Update() }
TickUpdate ==
    /\ pc = "idle"
    /\ ticks < horizon
    /\ balls' = [i \in BallIds |-> Update(balls[i])]
    /\ pc' = "position"
    /\ prev' = balls
    /\ op' = "Update"
    /\ ticks' = ticks + 1
    /\ UNCHANGED << k, pair, presses >>
    /\ UNCHANGED hvars
    /\ UNCHANGED dvars

\* for _, ball := range a.balls { ball.UpdatePositionWithHuman(..) }
TickPosition ==
    /\ pc = "position"
    /\ balls' = [i \in BallIds |-> UpdatePositionWithHuman(balls[i])]
    /\ pc' = "collide"
    /\ k' = 1
    /\ prev' = balls
    /\ op' = "Position"
    /\ UNCHANGED << pair, ticks, presses >>
    /\ UNCHANGED hvars
    /\ UNCHANGED dvars

NextPair ==
    /\ pair' = Pairs[k]
    /\ prev' = balls
    /\ IF k < Len(Pairs) THEN k' = k + 1 /\ pc' = "collide"
                         ELSE k' = 1 /\ pc' = "human"
    /\ UNCHANGED << ticks, presses >>
    /\ UNCHANGED hvars
    /\ UNCHANGED dvars

\* if a.balls[i].CheckCollision(a.balls[j]) { a.balls[i].HandleCollision(a.balls[j]) }
TickCollide ==
    /\ pc = "collide"
    /\ CheckCollision(balls, Pairs[k][1], Pairs[k][2])
    /\ balls' = HandleCollision(balls, Pairs[k][1], Pairs[k][2])
    /\ op' = "Collide"
    /\ NextPair

TickNoCollide ==
    /\ pc = "collide"
    /\ ~CheckCollision(balls, Pairs[k][1], Pairs[k][2])
    /\ balls' = balls
    /\ op' = "NoCollide"
    /\ NextPair

Older(n) == IF n < 0 THEN n ELSE n + 1

\* if a.human != nil { ... }: the human's part of the tick.  Human.Update
\* (move, keepWithinBounds, UpdateBullets, UpdateShooting,
\* CheckBulletCollisions) and the collision check run for an active human,
\* UpdateExplosion and RespawnWithBalls for an exploding one.
TickHuman ==
    /\ pc = "human"
    /\ \E moved \in { IF human.IsActive THEN keepWithinBounds(MoveHuman(human, balls))
                       ELSE human },
          flown \in { IF human.IsActive THEN UpdateBullets(bullets) ELSE bullets } :
       \E shooting \in { UpdateShooting(moved, flown, balls) } :
       \E after \in { IF human.IsActive THEN CheckBulletCollisions(shooting.bullets, balls)
                       ELSE [bullets |-> bullets, balls |-> balls] } :
       \E died \in { human.IsActive /\ CheckCollisionWithBalls(shooting.human, after.balls) } :
       \E checked \in { IF died THEN Explode(shooting.human) ELSE shooting.human } :
       \E exploded \in { HumanUpdateExplosion(checked) } :
       \E respawned \in { checked.IsExploding /\ ~exploded.IsExploding } :
          /\ human' = IF respawned THEN RespawnWithBalls(exploded, after.balls) ELSE exploded
          /\ bullets' = after.bullets
          /\ balls' = after.balls
          /\ ev' = [shot |-> shooting.shot, died |-> died, respawned |-> respawned,
                    new |-> IF shooting.shot
                            THEN shooting.bullets[Len(shooting.bullets)] ELSE NoBullet]
          /\ sinceShot' = IF shooting.shot THEN 0 ELSE Older(sinceShot)
          /\ sinceDeath' = IF died THEN 0 ELSE Older(sinceDeath)
    /\ hprev' = human
    /\ bprev' = bullets
    /\ prev' = balls
    /\ op' = "Human"
    /\ pc' = "dragon"
    /\ UNCHANGED << k, pair, ticks, presses, horizon >>
    /\ UNCHANGED dvars

\* if a.dragon != nil && a.dragon.IsActive { a.dragon.Update(a.balls, a.human) }
TickDragon ==
    /\ pc = "dragon"
    /\ \E updated \in { DragonUpdate(dragon, balls, human) } :
          /\ dragon' = updated.dragon
          /\ balls' = updated.balls
          /\ struck' = updated.struck
    /\ dprev' = dragon
    /\ prev' = balls
    /\ op' = "Dragon"
    /\ pc' = "idle"
    /\ UNCHANGED << k, pair, ticks, presses >>
    /\ UNCHANGED hvars

\* A button callback, which runs on the UI goroutine
Callback(name) ==
    /\ presses < MaxPresses
    /\ presses' = presses + 1
    /\ prev' = balls
    /\ op' = name
    /\ UNCHANGED << pc, k, pair, ticks >>

StartAllCallback ==
    /\ Callback("StartAll")
    /\ balls' = [i \in BallIds |-> [balls[i] EXCEPT !.IsAnimated = TRUE]]
    /\ UNCHANGED hvars
    /\ UNCHANGED dvars

StopAllCallback ==
    /\ Callback("StopAll")
    /\ balls' = [i \in BallIds |-> [balls[i] EXCEPT !.IsAnimated = FALSE]]
    /\ UNCHANGED hvars
    /\ UNCHANGED dvars

\* resetAll: the balls where Run put them, the human in the middle and alive,
\* the dragon where Run put it and at rest
resetAll ==
    /\ Callback("ResetAll")
    /\ balls' = [i \in BallIds |->
                    [balls[i] EXCEPT !.X = << Ball1, Ball2, Ball3 >>[i].X,
                                     !.Y = << Ball1, Ball2, Ball3 >>[i].Y,
                                     !.VX = << Ball1, Ball2, Ball3 >>[i].VX,
                                     !.VY = << Ball1, Ball2, Ball3 >>[i].VY]]
    /\ human' = [human EXCEPT !.X = Human1.X, !.Y = Human1.Y, !.IsExploding = FALSE,
                              !.IsActive = TRUE, !.RespawnTimer = 0]
    /\ hprev' = human
    /\ dragon' = [dragon EXCEPT !.X = Dragon1.X, !.Y = Dragon1.Y, !.VX = 0, !.VY = 0,
                                !.IsActive = TRUE]
    /\ dprev' = dragon
    /\ UNCHANGED << bullets, bprev, ev, sinceShot, sinceDeath, horizon, struck >>

\* The ticker goroutine is between two ticks
BetweenTicks == pc = "idle"

\* the Start All button
StartAll == BetweenTicks /\ StartAllCallback

\* the Stop All button
StopAll == BetweenTicks /\ StopAllCallback

Next ==
    \/ TickUpdate
    \/ TickPosition
    \/ TickCollide
    \/ TickNoCollide
    \/ TickHuman
    \/ TickDragon
    \/ StartAll
    \/ StopAll

Spec == Init /\ [][Next]_vars

(***************************************************************************)
(* The same application with a ball built by a caller of NewCustomBall,    *)
(* which takes any radius                                                  *)
(***************************************************************************)
ArgRadii == { -500, 0, 1, 2500 }
ArgPlaces == { <<10000, 10000>>, <<33000, 20100>> }
ArgVelocities == { <<150, 120>>, <<0, 0>> }

InitApi ==
    /\ balls = [i \in BallIds |-> Animate(<< Ball1, Ball2, Ball3 >>[i])]
    /\ pc = "idle"
    /\ k = 1
    /\ prev = balls
    /\ op = "init"
    /\ pair = <<1, 2>>
    /\ ticks = 0
    /\ presses = 0
    /\ human = Human1
    /\ bullets = << >>
    /\ hprev = human
    /\ bprev = bullets
    /\ ev = NoEvent
    /\ sinceShot = -1
    /\ sinceDeath = -1
    /\ horizon = MaxTicks
    /\ dragon = Dragon1
    /\ dprev = dragon
    /\ struck = 0

\* a.balls[i] = NewCustomBall(...), before the first tick
NewBallCall ==
    /\ op = "init"
    /\ \E i \in BallIds, place \in ArgPlaces, v \in ArgVelocities, radius \in ArgRadii :
          balls' = [balls EXCEPT ![i] =
                       Animate(NewCustomBall(place[1], place[2], v[1], v[2], radius))]
    /\ prev' = balls
    /\ op' = "NewCustomBall"
    /\ UNCHANGED << pc, k, pair, ticks, presses >>
    /\ UNCHANGED hvars
    /\ UNCHANGED dvars

NextApi ==
    \/ NewBallCall
    \/ Next

SpecApi == InitApi /\ [][NextApi]_vars

(***************************************************************************)
(* The application as the Go scheduler runs it: the ticker goroutine and   *)
(* the button callbacks share a.balls and a.human with no lock, so a       *)
(* callback runs wherever the tick happens to be                           *)
(***************************************************************************)
\* Run's balls, and two of them meeting
RaceScenes ==
    { << Ball1, Ball2, Ball3 >>,
      << NewCustomBall(40000, 30000, 150, 120, 3000),
         NewCustomBall(45000, 30000, -150, 0, 2500),
         Ball3 >> }

InitRace ==
    /\ \E scene \in RaceScenes : balls = [i \in BallIds |-> Animate(scene[i])]
    /\ pc = "idle"
    /\ k = 1
    /\ prev = balls
    /\ op = "init"
    /\ pair = <<1, 2>>
    /\ ticks = 0
    /\ presses = 0
    /\ human = Human1
    /\ bullets = << >>
    /\ hprev = human
    /\ bprev = bullets
    /\ ev = NoEvent
    /\ sinceShot = -1
    /\ sinceDeath = -1
    /\ horizon = MaxTicks
    /\ dragon = Dragon1
    /\ dprev = dragon
    /\ struck = 0

NextRace ==
    \/ TickUpdate
    \/ TickPosition
    \/ TickCollide
    \/ TickNoCollide
    \/ TickHuman
    \/ TickDragon
    \/ StartAllCallback
    \/ StopAllCallback
    \/ resetAll

SpecRace == InitRace /\ [][NextRace]_vars

(***************************************************************************)
(* The application left running, no button pressed, long enough for the    *)
(* human to explode, respawn and shoot again                               *)
(***************************************************************************)
MaxLifeTicks == 185

\* Run's balls, which the human keeps away from and shoots at, and two balls
\* that start on the human
LifeScenes ==
    { << Ball1, Ball2, Ball3 >>,
      << NewCustomBall(40000, 30000, 150, 120, 3000),
         NewCustomBall(45000, 30000, -150, 0, 2500),
         Ball3 >> }

InitLife ==
    /\ \E scene \in LifeScenes : balls = [i \in BallIds |-> Animate(scene[i])]
    /\ pc = "idle"
    /\ k = 1
    /\ prev = balls
    /\ op = "init"
    /\ pair = <<1, 2>>
    /\ ticks = 0
    /\ presses = 0
    /\ human = Human1
    /\ bullets = << >>
    /\ hprev = human
    /\ bprev = bullets
    /\ ev = NoEvent
    /\ sinceShot = -1
    /\ sinceDeath = -1
    /\ horizon = MaxLifeTicks
    /\ dragon = Dragon1
    /\ dprev = dragon
    /\ struck = 0

NextTicks ==
    \/ TickUpdate
    \/ TickPosition
    \/ TickCollide
    \/ TickNoCollide
    \/ TickHuman
    \/ TickDragon

SpecLife == InitLife /\ [][NextTicks]_vars

(***************************************************************************)
(* The human's part of the tick from the states the application can be in  *)
(* when it starts: a human about to respawn among balls that run or were   *)
(* stopped with Stop All                                                   *)
(***************************************************************************)
\* The human one tick before its respawn, where it exploded
Dying(x, y) ==
    [NewHuman(x, y, 3500) EXCEPT !.IsActive = FALSE, !.IsExploding = TRUE,
                                 !.RespawnTimer = 1, !.Deaths = 1, !.ShootTimer = 7]

\* Which balls Start All and Stop All have left animated
AnimatedFlags == { <<TRUE, TRUE, TRUE>>, <<FALSE, FALSE, FALSE>> }

WithFlags(scene, flags) == [i \in BallIds |-> [scene[i] EXCEPT !.IsAnimated = flags[i]]]

\* Balls at a respawn: Run's, balls around the first grid candidate, and
\* balls of different sizes spread over the arena
RespawnBalls ==
    { << Ball1, Ball2, Ball3 >>,
      << NewCustomBall(4500, 9500, 150, 120, 3000),
         NewCustomBall(12000, 9500, -120, 180, 2500),
         NewCustomBall(4500, 17000, -180, -140, 3500) >>,
      << NewCustomBall(20000, 15000, 150, 120, 3500),
         NewCustomBall(60000, 15000, -120, 180, 3500),
         NewCustomBall(40000, 45000, -180, -140, 3500) >>,
      << NewCustomBall(70000, 50000, 150, 120, 3000),
         NewCustomBall(75000, 9500, -120, 180, 2500),
         NewCustomBall(40000, 30000, 0, 0, 3500) >> }

RespawnScenes ==
    { [balls |-> WithFlags(b, f), human |-> Dying(p[1], p[2]), bullets |-> << >>] :
        b \in RespawnBalls, f \in AnimatedFlags,
        p \in { <<40000, 30000>>, <<10000, 10000>> } }

\* Where the closest ball lies from the human before the tick moves it by
\* (1.5, 0): on the firing circle after the move, just beyond and just
\* inside it, and further away in several directions
TargetOffsets ==
    { <<5100, 0>>, <<5110, 0>>, <<5000, 0>>, <<5100, 10>>, <<8000, 6000>>,
      <<-9000, 3000>>, <<0, -7000>>, <<-20000, -15000>> }

\* The human ready to shoot: Run's human, and one away from the centre
Shooters == { Human1, NewHuman(30000, 40000, 3500) }

ShootScenes ==
    { [balls |-> WithFlags(<< NewCustomBall(h.X + o[1], h.Y + o[2], 150, 0, 2500),
                              NewCustomBall(5000, 9500, 150, 120, 3000),
                              NewCustomBall(75000, 9500, -180, -140, 3500) >>,
                           <<TRUE, TRUE, TRUE>>),
       human |-> h, bullets |-> << >>] :
        h \in Shooters, o \in TargetOffsets }

\* A bullet in flight
Bullet(x, y, vx, vy) ==
    [X |-> x, Y |-> y, VX |-> vx, VY |-> vy, IsActive |-> TRUE, NaN |-> FALSE]

\* The human between two shots, away from the balls, and the human in the
\* middle of its explosion
Bystanders ==
    { [NewHuman(20000, 30000, 3500) EXCEPT !.ShootTimer = 9],
      [Dying(20000, 30000) EXCEPT !.RespawnTimer = 100] }

\* Velocities of the ball the bullets fly at: Run's, at the speed limit of
\* a ball that a bullet has hit before, and at rest
StruckVelocities == { <<150, 120>>, <<800, 0>>, <<0, -800>>, <<-480, -640>>, <<0, 0>> }

\* Bullets around the ball at (600, 400): about to hit it from the left,
\* from above, obliquely and in its centre, passing it, and about to leave
\* the arena or reach its edge
BulletLists ==
    { << Bullet(55500, 40000, 800, 0) >>,
      << Bullet(60000, 35500, 0, 800) >>,
      << Bullet(62500, 43000, -566, -566) >>,
      << Bullet(59200, 40000, 800, 0) >>,
      << Bullet(60000, 30000, 800, 0) >>,
      << Bullet(79600, 30000, 800, 0) >>,
      << Bullet(79200, 10000, 800, 0) >>,
      << Bullet(30000, 500, 0, -800) >>,
      << Bullet(55500, 40000, 800, 0), Bullet(60000, 35500, 0, 800),
         Bullet(400, 59000, -640, 480) >> }

BulletScenes ==
    { [balls |-> WithFlags(<< NewCustomBall(60000, 40000, v[1], v[2], 3000),
                              NewCustomBall(63000, 40000, -120, 180, 2500),
                              NewCustomBall(10000, 10000, 150, 120, 3500) >>,
                           <<TRUE, TRUE, TRUE>>),
       human |-> h, bullets |-> bl] :
        v \in StruckVelocities, h \in Bystanders, bl \in BulletLists }

\* The human between two shots, and the one ball near it, given by its offset
\* from the human and its velocity: coming fast, coming slowly, coming from
\* close and from closer, obliquely, passing by, crossing, and going away
NearBalls ==
    { << -10000, 0, 200, 0 >>, << -10000, 0, 50, 0 >>, << -8000, 0, 200, 0 >>,
      << -7000, 0, 300, 0 >>, << 6000, 8000, -150, -200 >>, << -10000, 0, 600, 200 >>,
      << -10000, 0, 0, 300 >>, << -10000, 0, -200, 0 >>, << 0, 16000, 0, -100 >> }

\* Where the human stands: in the dead zone of the centering force and
\* outside it
Standpoints == { << 40000, 30000 >>, << 20000, 30000 >> }

\* Balls far from every standpoint
FarBall2 == NewCustomBall(20000, 10000, -120, 0, 2500)
FarBall3 == NewCustomBall(60000, 10000, 120, 0, 2500)

Walker(x, y) == [NewHuman(x, y, 3500) EXCEPT !.ShootTimer = 9]

AvoidScenes ==
    { [balls |-> WithFlags(<< NewCustomBall(p[1] + n[1], p[2] + n[2], n[3], n[4], 2500),
                              FarBall2, FarBall3 >>,
                           <<TRUE, TRUE, TRUE>>),
       human |-> Walker(p[1], p[2]), bullets |-> << >>] :
        p \in Standpoints, n \in NearBalls }

\* Two balls coming at the human from opposite sides, and from two sides
PincerScenes ==
    { [balls |-> WithFlags(<< NewCustomBall(40000 - m[1], 30000 - m[2], m[3], m[4], 2500),
                              NewCustomBall(40000 + m[5], 30000 + m[6], m[7], m[8], 2500),
                              FarBall3 >>,
                           <<TRUE, TRUE, TRUE>>),
       human |-> Walker(40000, 30000), bullets |-> << >>] :
        m \in { << 10000, 0, 200, 0, 10000, 0, -200, 0 >>,
                << 10000, 0, 200, 0, 0, 9000, 0, -200 >> } }

\* The human at an edge of the arena with a ball driving it out: past the
\* left and the right edge, where it wraps, against the top and the bottom,
\* where it stops, and well inside
EdgeWalks ==
    { << -1500, 30000, 7000, 0, -300, 0 >>, << 81500, 30000, -7000, 0, 300, 0 >>,
      << 40000, 1900, 0, 7000, 0, -300 >>, << 40000, 58100, 0, -7000, 0, 300 >>,
      << -1700, 30000, 7000, 0, -300, 0 >>, << 1000, 2000, 5000, 5000, -200, -200 >>,
      << 30000, 30000, 7000, 0, -300, 0 >> }

EdgeScenes ==
    { [balls |-> WithFlags(<< NewCustomBall(e[1] + e[3], e[2] + e[4], e[5], e[6], 2500),
                              FarBall2, FarBall3 >>,
                           <<TRUE, TRUE, TRUE>>),
       human |-> Walker(e[1], e[2]), bullets |-> << >>] :
        e \in EdgeWalks }

\* The dragon where it has gone to, away from the balls of every scene
Dragon2 == NewDragon(30000, 52000, 4000)

HumanScenes ==
    RespawnScenes \cup ShootScenes \cup BulletScenes \cup AvoidScenes \cup PincerScenes
        \cup EdgeScenes

InitHuman ==
    /\ \E scene \in HumanScenes :
          /\ balls = scene.balls
          /\ human = scene.human
          /\ bullets = scene.bullets
    /\ pc = "idle"
    /\ k = 1
    /\ prev = balls
    /\ op = "init"
    /\ pair = <<1, 2>>
    /\ ticks = 0
    /\ presses = 0
    /\ hprev = human
    /\ bprev = bullets
    /\ ev = NoEvent
    /\ sinceShot = -1
    /\ sinceDeath = -1
    /\ horizon = MaxTicks
    /\ dragon = Dragon2
    /\ dprev = dragon
    /\ struck = 0

SpecHuman == InitHuman /\ [][NextTicks]_vars

(***************************************************************************)
(* The dragon's part of the tick from the states the application can be in *)
(* when it starts: a dragon that follows the human, meets balls and walls, *)
(* and recovers from a collision                                           *)
(***************************************************************************)
MaxDragonTicks == 60

\* A ball that startAnimation has set going
Moving(x, y, vx, vy, radius) == Animate(NewCustomBall(x, y, vx, vy, radius))

\* A dragon that has tracked the human to (hx, hy)
DragonAt(x, y, vx, vy, hx, hy) ==
    [NewDragon(x, y, 4000) EXCEPT !.VX = vx, !.VY = vy, !.LastHumanX = hx, !.LastHumanY = hy]

\* A dragon in the drift that follows a collision
DriftingAt(x, y, vx, vy, hx, hy) ==
    [DragonAt(x, y, vx, vy, hx, hy) EXCEPT !.IsDrifting = TRUE, !.DriftTimer = 20]

\* Where the dragon is relative to the human: far, at the edges of the band
\* in which it holds, inside the band, too near, above, and on the human
DragonSpots ==
    { <<20000, 0>>, <<10100, 0>>, <<10000, 0>>, <<8000, 0>>, <<6000, 0>>, <<5000, 0>>,
      <<0, -12000>>, <<0, 0>> }

\* The dragon's velocity: at rest, and as interceptBall left it
DragonVelocities == { <<0, 0>>, <<240, 0>> }

\* Two balls about to meet each other, far from the human and the dragon
MeetingBalls ==
    << Moving(10000, 12000, 150, 0, 2500), Moving(15100, 12000, -150, 0, 2500),
       Animate(FarBall3) >>

\* Balls around the human at (400, 300): none near it; two that meet far from
\* it; one coming at it from the edge of the protect radius; one near it that
\* passes or leaves; one coming at it that Stop All has stopped; two coming
\* at it, the one nearer to the human farther from a dragon on the right
BallsAround ==
    { << Moving(10000, 10000, 150, 120, 3000), Animate(FarBall2), Animate(FarBall3) >>,
      MeetingBalls,
      << Moving(25000, 30000, 150, 0, 2500), Animate(FarBall2), Animate(FarBall3) >>,
      << Moving(25200, 30000, 150, 0, 2500), Animate(FarBall2), Animate(FarBall3) >>,
      << Moving(30000, 30000, 0, 150, 2500),
         Moving(40000, 20000, 0, -150, 2500), Animate(FarBall3) >>,
      << NewCustomBall(30000, 30000, 150, 0, 2500),
         Animate(FarBall2), Animate(FarBall3) >>,
      << Moving(30000, 30000, 150, 0, 2500),
         Moving(40000, 44000, 0, -150, 3500), Animate(FarBall3) >> }

ProtectScenes ==
    { [balls |-> b, human |-> h,
       dragon |-> DragonAt(40000 + p[1], 30000 + p[2], v[1], v[2], 40000, 30000),
       horizon |-> MaxTicks] :
        b \in BallsAround, p \in DragonSpots, v \in DragonVelocities,
        h \in { Walker(40000, 30000), [Dying(40000, 30000) EXCEPT !.RespawnTimer = 100] } }

\* A ball that meets the dragon at (400, 450), given by its offset from the
\* dragon, its velocity and its radius: coming from the left, from below and
\* obliquely, at rest on the dragon's edge, and at the dragon's very place
Strikers ==
    { << -5600, 0, 150, 0, 2500 >>, << -6000, 0, 150, 0, 3000 >>,
      << -6500, 0, 150, 0, 3500 >>, << 0, 6200, 0, -180, 3000 >>,
      << 4000, 4000, -150, -120, 3000 >>, << 4000, 0, 0, 0, 3500 >>,
      << 0, 0, 150, 120, 3000 >>, << -5600, 0, 500, 0, 2500 >> }

StrikeScenes ==
    { [balls |-> << Moving(40000 + s[1], 45000 + s[2], s[3], s[4], s[5]),
                    Animate(FarBall2), Animate(FarBall3) >>,
       human |-> h,
       dragon |-> DragonAt(40000, 45000, v[1], v[2], h.X, h.Y),
       horizon |-> MaxDragonTicks] :
        s \in Strikers, v \in DragonVelocities,
        h \in { Walker(40000, 30000), [Dying(40000, 30000) EXCEPT !.RespawnTimer = 100] } }

\* The dragon drifting at a wall, given by its place and velocity: into the
\* left, the right, the top and the bottom margin, into a corner, along a
\* wall, and in the middle
WallDrifts ==
    { << 2100, 30000, -300, 0 >>, << 77900, 30000, 300, 0 >>,
      << 40000, 7100, 0, -300 >>, << 40000, 52900, 0, 300 >>,
      << 2100, 7100, -200, -200 >>, << 77900, 52900, 150, 250 >>,
      << 2000, 30000, 0, 200 >>, << 40000, 30000, 300, 100 >> }

WallDragonScenes ==
    { [balls |-> << Animate(Ball1), Animate(FarBall2), Animate(FarBall3) >>,
       human |-> Walker(40000, 30000),
       dragon |-> d,
       horizon |-> MaxTicks] :
        d \in { DriftingAt(w[1], w[2], w[3], w[4], 40000, 30000) : w \in WallDrifts }
              \cup { DragonAt(2050, 30000, 0, 0, 40000, 30000) } }

DragonScenes == ProtectScenes \cup StrikeScenes \cup WallDragonScenes

InitDragon ==
    /\ \E scene \in DragonScenes :
          /\ balls = [i \in BallIds |-> scene.balls[i]]
          /\ human = scene.human
          /\ dragon = scene.dragon
          /\ horizon = scene.horizon
    /\ bullets = << >>
    /\ pc = "idle"
    /\ k = 1
    /\ prev = balls
    /\ op = "init"
    /\ pair = <<1, 2>>
    /\ ticks = 0
    /\ presses = 0
    /\ hprev = human
    /\ bprev = bullets
    /\ ev = NoEvent
    /\ sinceShot = -1
    /\ sinceDeath = -1
    /\ dprev = dragon
    /\ struck = 0

SpecDragon == InitDragon /\ [][NextTicks]_vars

(***************************************************************************)
(* The application with its buttons pressed between two ticks, from the    *)
(* states it can be in when a button is pressed: the human about to        *)
(* respawn, shooting, about to be hit, exploding or switched off, the      *)
(* dragon following, about to end its drift or its spin, or about to       *)
(* strike a ball, spinning or not, and from the state Run starts it in     *)
(***************************************************************************)
\* The human that Toggle Human has switched off
SwitchedOff(x, y) == [NewHuman(x, y, 3500) EXCEPT !.IsActive = FALSE]

\* The human under a ball, in the middle of its explosion with a bullet in
\* flight, one tick after it exploded, switched off, as Run built it, and
\* with two balls about to meet
PanelHumans ==
    { [balls |-> << Moving(42000, 30000, -150, 0, 2500), Animate(FarBall2),
                    Animate(FarBall3) >>,
       human |-> Walker(40000, 30000), bullets |-> << >>],
      [balls |-> << Moving(60000, 40000, 150, 120, 3000), Animate(FarBall2),
                    Animate(FarBall3) >>,
       human |-> [Dying(20000, 30000) EXCEPT !.RespawnTimer = 100],
       bullets |-> << Bullet(55500, 40000, 800, 0) >>],
      [balls |-> << Animate(Ball1), Animate(Ball2), Animate(Ball3) >>,
       human |-> [Dying(20000, 30000) EXCEPT !.RespawnTimer = RespawnFrames - 1],
       bullets |-> << >>],
      [balls |-> << Animate(Ball1), Animate(Ball2), Animate(Ball3) >>,
       human |-> SwitchedOff(40000, 30000), bullets |-> << >>],
      [balls |-> << Animate(Ball1), Animate(Ball2), Animate(Ball3) >>,
       human |-> Human1, bullets |-> << >>],
      [balls |-> MeetingBalls, human |-> Human1, bullets |-> << >>] }

\* The dragon away from the balls of every scene: following, in the last
\* tick of its drift, and in the last tick of its spin
PanelDragons ==
    { Dragon2,
      [DriftingAt(30000, 52000, 100, 0, 40000, 30000) EXCEPT !.DriftTimer = 1],
      [Dragon2 EXCEPT !.IsSpinning = TRUE, !.SpinAngle = SpinSteps - 1,
                      !.SpinCount = SpinTarget - 1] }

PanelScenes ==
    { [balls |-> h.balls, human |-> h.human, bullets |-> h.bullets, dragon |-> d] :
        h \in PanelHumans \cup { sc \in RespawnScenes : sc.human.X = 40000 }
              \cup { sc \in ShootScenes : sc.human = Human1 },
        d \in PanelDragons }
    \cup { [balls |-> sc.balls, human |-> sc.human, bullets |-> << >>,
            dragon |-> [sc.dragon EXCEPT !.IsSpinning = spinning]] :
             sc \in { st \in StrikeScenes : st.dragon.VX = 0 }, spinning \in BOOLEAN }
    \cup { [balls |-> << Animate(Ball1), Animate(Ball2), Animate(Ball3) >>,
            human |-> Human1, bullets |-> << >>, dragon |-> Dragon1] }

InitPanel ==
    /\ \E scene \in PanelScenes :
          /\ balls = [i \in BallIds |-> scene.balls[i]]
          /\ human = scene.human
          /\ bullets = scene.bullets
          /\ dragon = scene.dragon
    /\ pc = "idle"
    /\ k = 1
    /\ prev = balls
    /\ op = "init"
    /\ pair = <<1, 2>>
    /\ ticks = 0
    /\ presses = 0
    /\ hprev = human
    /\ bprev = bullets
    /\ ev = NoEvent
    /\ sinceShot = -1
    /\ sinceDeath = -1
    /\ horizon = MaxTicks
    /\ dprev = dragon
    /\ struck = 0

\* the Reset All button
ResetAll == BetweenTicks /\ resetAll

\* the Toggle Human button: not during the explosion
ToggleHuman ==
    /\ BetweenTicks
    /\ Callback("ToggleHuman")
    /\ human' = IF human.IsExploding THEN human
                ELSE [human EXCEPT !.IsActive = ~human.IsActive]
    /\ hprev' = human
    /\ UNCHANGED << balls, bullets, bprev, ev, sinceShot, sinceDeath, horizon >>
    /\ UNCHANGED dvars

NextPanel ==
    \/ NextTicks
    \/ StartAll
    \/ StopAll
    \/ ResetAll
    \/ ToggleHuman

SpecPanel == InitPanel /\ [][NextPanel]_vars

(***************************************************************************)
(* Ball.Update called tick after tick on balls that start across a wall    *)
(* or on it                                                                *)
(***************************************************************************)
MaxBallTicks == 6

\* The first ball across a wall or on it, given by its place, velocity and
\* radius: across the left wall going out, coming in and at rest; on the
\* left wall at rest; across the right, the top and the bottom wall; in a
\* corner; and clear of the walls
Straddlers ==
    { << 2500, 30000, -150, 120, 3000 >>, << 2500, 30000, 150, 120, 3000 >>,
      << 2500, 30000, 0, 0, 3000 >>, << 3000, 30000, 0, 0, 3000 >>,
      << 3100, 30000, 150, 0, 3500 >>, << 3100, 30000, -500, 0, 3500 >>,
      << 77500, 30000, 150, 120, 3000 >>, << 77500, 30000, -150, 0, 3500 >>,
      << 77000, 30000, 0, 120, 3000 >>,
      << 40000, 7500, 150, -120, 3000 >>, << 40000, 7500, 150, 120, 3500 >>,
      << 40000, 8000, 150, 0, 3000 >>,
      << 40000, 52500, 150, 120, 3000 >>, << 40000, 52500, 0, -120, 3500 >>,
      << 2800, 7800, -150, -120, 3000 >>, << 2800, 7800, 0, 0, 3500 >>,
      << 40000, 30000, 150, 120, 3000 >>, << 40000, 30000, 0, 0, 3000 >> }

StraddleScenes ==
    { << Moving(s[1], s[2], s[3], s[4], s[5]), Animate(Ball2), Animate(Ball3) >> :
        s \in Straddlers }

InitBall ==
    /\ \E scene \in StraddleScenes : balls = [i \in BallIds |-> scene[i]]
    /\ pc = "idle"
    /\ k = 1
    /\ prev = balls
    /\ op = "init"
    /\ pair = <<1, 2>>
    /\ ticks = 0
    /\ presses = 0
    /\ human = Human1
    /\ bullets = << >>
    /\ hprev = human
    /\ bprev = bullets
    /\ ev = NoEvent
    /\ sinceShot = -1
    /\ sinceDeath = -1
    /\ horizon = MaxBallTicks
    /\ dragon = Dragon1
    /\ dprev = dragon
    /\ struck = 0

\* ball.Update() on every ball, and nothing else
BallUpdate ==
    /\ ticks < horizon
    /\ balls' = [i \in BallIds |-> Update(balls[i])]
    /\ prev' = balls
    /\ op' = "Update"
    /\ ticks' = ticks + 1
    /\ UNCHANGED << pc, k, pair, presses >>
    /\ UNCHANGED hvars
    /\ UNCHANGED dvars

NextBall == BallUpdate

\* The ticker fires again and again
SpecBall == InitBall /\ [][NextBall]_vars /\ WF_vars(NextBall)

(***************************************************************************)
(* The ticker left running for good, with the human switched off, from     *)
(* scenes whose motion repeats: a ball that comes up from below to a        *)
(* dragon under the human, at rest or on its way, a ball at the dragon's    *)
(* very place, the other two balls going up and down by the side walls;    *)
(* and the balls stopped by Stop All with two of them on each other.  No    *)
(* tick is counted, so a state that comes back closes a loop.               *)
(***************************************************************************)
RecoveryStrikers ==
    { << 0, 6200, 0, -180, 3000, 0 >>, << 0, 6200, 0, -180, 3000, 240 >>,
      << 0, 0, 150, 120, 3000, 240 >> }

RecoveryScenes ==
    { [balls |-> << Moving(40000 + s[1], 45000 + s[2], s[3], s[4], s[5]),
                    Moving(10000, 30000, 0, 500, 2500),
                    Moving(70000, 30000, 0, -500, 2500) >>,
       dragon |-> DragonAt(40000, 45000, s[6], 0, 40000, 30000)] : s \in RecoveryStrikers }
    \cup
    { [balls |-> << NewCustomBall(20000, 15000, 150, 120, 3000),
                    NewCustomBall(23000, 19000, -120, 180, 2500),
                    NewCustomBall(60000, 15000, -180, -140, 3500) >>,
       dragon |-> DragonAt(40000, 38000, 0, 0, 40000, 30000)] }

InitRecovery ==
    /\ \E scene \in RecoveryScenes :
          /\ balls = [i \in BallIds |-> scene.balls[i]]
          /\ dragon = scene.dragon
    /\ human = SwitchedOff(40000, 30000)
    /\ horizon = 0
    /\ bullets = << >>
    /\ pc = "idle"
    /\ k = 1
    /\ prev = balls
    /\ op = "init"
    /\ pair = <<1, 2>>
    /\ ticks = 0
    /\ presses = 0
    /\ hprev = human
    /\ bprev = bullets
    /\ ev = NoEvent
    /\ sinceShot = -1
    /\ sinceDeath = -1
    /\ dprev = dragon
    /\ struck = 0

\* for range ticker.C { for _, ball := range a.balls { ball.Update() } ... }:
\* TickUpdate without the count of ticks
TickRun ==
    /\ pc = "idle"
    /\ balls' = [i \in BallIds |-> Update(balls[i])]
    /\ pc' = "position"
    /\ prev' = balls
    /\ op' = "Update"
    /\ UNCHANGED << k, pair, ticks, presses >>
    /\ UNCHANGED hvars
    /\ UNCHANGED dvars

NextRecovery ==
    \/ TickRun
    \/ TickPosition
    \/ TickCollide
    \/ TickNoCollide
    \/ TickHuman
    \/ TickDragon

Places == { "idle", "position", "collide", "human", "dragon" }

\* The loop moves on to its next step.  Every step of NextRecovery changes pc
\* or k and one of them is enabled in every state, so the steps of
\* NextRecovery are the steps that change << pc, k >>.
Onward == \E place \in Places, n \in 1..Len(Pairs) : pc' = place /\ k' = n

\* The ticker fires again and again and a tick that has begun runs to its end
SpecRecovery == InitRecovery /\ [][NextRecovery]_vars /\ WF_<< pc, k >>(Onward)

(***************************************************************************)
(* Properties                                                              *)
(***************************************************************************)
\* A tick has just run to its end
TickEnded == pc = "human" /\ op \in {"Collide", "NoCollide"}

InsideWalls(b) ==
    /\ b.Radius <= b.X
    /\ b.X <= BoundsWidth - b.Radius
    /\ ButtonArea + b.Radius <= b.Y
    /\ b.Y <= BoundsHeight - ButtonArea - b.Radius

\* C1: at the end of every tick every animated ball lies inside the arena
\* walls: Radius <= X <= Width - Radius and 50 + Radius <= Y <= Height - 50 - Radius.
C1_InsideWallsAfterTick ==
    TickEnded => \A i \in BallIds : balls[i].IsAnimated => InsideWalls(balls[i])

\* Whether Update, having moved ball p, finds it at a wall of the x or y axis
AtWallX(p) ==
    (p.X + p.VX) - p.Radius <= 0 \/ (p.X + p.VX) + p.Radius >= BoundsWidth
AtWallY(p) ==
    \/ (p.Y + p.VY) - p.Radius <= ButtonArea
    \/ (p.Y + p.VY) + p.Radius >= BoundsHeight - ButtonArea

\* C2: Update on an animated ball adds the velocity to the position; on each
\* axis where the ball's edge has reached or crossed a wall the velocity
\* component is negated once and the position is set onto the wall (the
\* radius being the one the wall test read), and on an axis that touched no
\* wall the velocity component is unchanged and the position is the sum.
C2_UpdateBounces ==
    op = "Update" =>
        \A i \in BallIds :
            LET p == prev[i]
                b == balls[i]
            IN  p.IsAnimated =>
                  /\ IF AtWallX(p)
                     THEN /\ b.VX = -p.VX
                          /\ b.X \in {p.Radius, BoundsWidth - p.Radius}
                     ELSE /\ b.VX = p.VX
                          /\ b.X = p.X + p.VX
                  /\ IF AtWallY(p)
                     THEN /\ b.VY = -p.VY
                          /\ b.Y \in {ButtonArea + p.Radius,
                                       BoundsHeight - ButtonArea - p.Radius}
                     ELSE /\ b.VY = p.VY
                          /\ b.Y = p.Y + p.VY

\* C2 witness: an Update in which a moving ball reached exactly the left wall
\* (its edge on the wall, not across it) and touched no wall on the y axis
C2_Witness ==
    /\ op = "Update"
    /\ \E i \in BallIds :
          /\ prev[i].IsAnimated
          /\ prev[i].X + prev[i].VX = prev[i].Radius
          /\ ~AtWallY(prev[i])
          /\ prev[i].VY # 0
          /\ balls[i].VX = -prev[i].VX
          /\ balls[i].VX > 0

(***************************************************************************)
(* HandleCollision: the pair the last step handled, before and after       *)
(***************************************************************************)
BeforeA == prev[pair[1]]
BeforeB == prev[pair[2]]
AfterA == balls[pair[1]]
AfterB == balls[pair[2]]

\* What "a small epsilon" allows: a unit and a half, more than the rounding
\* of the arithmetic can add up to
Epsilon == Scale + (Scale \div 2)

CentreDistance(a, b) == Dist(a.X - b.X, a.Y - b.Y)
Overlap(a, b) == (a.Radius + b.Radius) - CentreDistance(a, b)

\* C3: after HandleCollision(a, b) on two overlapping balls the distance
\* between the centres is at least the sum of the radii as they are after the
\* call, minus a small epsilon, and the pair overlaps no more deeply than
\* before the call.
C3_NoDeeperOverlap ==
    op = "Collide" =>
        /\ CentreDistance(AfterA, AfterB) >= AfterA.Radius + AfterB.Radius - Epsilon
        /\ Overlap(AfterA, AfterB) <= Overlap(BeforeA, BeforeB) + Epsilon

\* 1/2 * GetMass() * (VX^2 + VY^2), the mass taken in whole units
KineticEnergy(b) ==
    ((GetMass(b) \div Scale) * (Mul(b.VX, b.VX) + Mul(b.VY, b.VY))) \div 2

\* C4: the kinetic energy of the balls, each with its current mass, does not
\* increase from before a HandleCollision call to after it (one part in fifty
\* is allowed for rounding).
C4_EnergyNotIncreasing ==
    op = "Collide" =>
        LET before == KineticEnergy(BeforeA) + KineticEnergy(BeforeB)
            after == KineticEnergy(AfterA) + KineticEnergy(AfterB)
        IN  after <= before + (before \div 50)

\* Two balls on one horizontal line, moving along it in opposite directions
\* and, when their centres differ, towards each other
HeadOn(a, b) ==
    /\ a.Y = b.Y
    /\ a.VY = 0 /\ b.VY = 0
    /\ a.VX * b.VX < 0
    /\ a.X < b.X => a.VX > 0
    /\ a.X > b.X => a.VX < 0

Coincident(a, b) == a.X = b.X /\ a.Y = b.Y

\* C5: two balls of equal radius that collide head-on leave
\* HandleCollision with their velocities along the normal exchanged and
\* then damped by 0.98, wherever the two stand on the collision axis, exactly
\* coincident centres included.
C5_HeadOnExchange ==
    (op = "Collide" /\ BeforeA.Radius = BeforeB.Radius /\ HeadOn(BeforeA, BeforeB)) =>
        /\ AfterA.VX = Mul(BeforeB.VX, Dampening)
        /\ AfterB.VX = Mul(BeforeA.VX, Dampening)
        /\ AfterA.VY = 0 /\ AfterB.VY = 0

\* C6: when the two balls are already separating along the collision normal
\* as HandleCollision is called, the call changes neither ball's VX, VY,
\* Radius, OriginalRadius or IsExploding.
C6_SeparatingUntouched ==
    LET n == CollisionNormal(BeforeA, BeforeB)
    IN  (op = "Collide" /\ NormalVelocity(BeforeA, n) - NormalVelocity(BeforeB, n) > 0) =>
            \A i \in {pair[1], pair[2]} :
                /\ balls[i].VX = prev[i].VX
                /\ balls[i].VY = prev[i].VY
                /\ balls[i].Radius = prev[i].Radius
                /\ balls[i].OriginalRadius = prev[i].OriginalRadius
                /\ balls[i].IsExploding = prev[i].IsExploding

\* C6 witness: a separating pair that HandleCollision moved apart
C6_Witness ==
    LET n == CollisionNormal(BeforeA, BeforeB)
    IN  /\ op = "Collide"
        /\ NormalVelocity(BeforeA, n) - NormalVelocity(BeforeB, n) > 0
        /\ AfterA.X # BeforeA.X
        /\ AfterB.X # BeforeB.X
        /\ ~BeforeA.IsExploding

\* C7: a tick applies HandleCollision only to pairs of which both balls are
\* animated and not exploding, so that a stopped or exploding ball never has
\* its position, velocity or radius changed by it.
C7_OnlyActivePairs ==
    op = "Collide" =>
        /\ BeforeA.IsAnimated /\ ~BeforeA.IsExploding
        /\ BeforeB.IsAnimated /\ ~BeforeB.IsExploding

\* The euclidean distance between the centres is strictly less than r,
\* decided on the squares
CloserThan(a, b, r) ==
    LET dx == Abs(a.X - b.X)
        dy == Abs(a.Y - b.Y)
    IN  dx < r /\ dy < r /\ dx * dx + dy * dy < r * r

\* C8: CheckCollision(a, b) is true exactly when a and b are different balls
\* and the distance between their centres is strictly less than the sum of
\* their radii; it equals CheckCollision(b, a); and a step that only called
\* it left every field of every ball as it was.
C8_CheckCollisionExact ==
    /\ \A i, j \in BallIds :
          /\ CheckCollision(balls, i, j) =
                (i # j /\ CloserThan(balls[i], balls[j], balls[i].Radius + balls[j].Radius))
          /\ CheckCollision(balls, i, j) = CheckCollision(balls, j, i)
    /\ op = "NoCollide" => balls = prev

\* C8 witness: CheckCollision has just answered no for a pair that touches
\* exactly, while another pair overlaps
C8_Witness ==
    /\ op = "NoCollide"
    /\ \E i, j \in BallIds :
          /\ i # j
          /\ CentreDistance(balls[i], balls[j]) = balls[i].Radius + balls[j].Radius
          /\ (balls[i].X - balls[j].X) * (balls[i].X - balls[j].X)
               + (balls[i].Y - balls[j].Y) * (balls[i].Y - balls[j].Y)
               = (balls[i].Radius + balls[j].Radius) * (balls[i].Radius + balls[j].Radius)
          /\ ~CheckCollision(balls, i, j)
    /\ \E i, j \in BallIds : CheckCollision(balls, i, j)

\* C9: HandleCollision on two balls whose centres coincide divides by no
\* zero (neither the distance nor the total mass is zero), uses a normal
\* that is not the zero vector, and leaves the two centres apart.
C9_CoincidentSeparated ==
    (op = "Collide" /\ Coincident(BeforeA, BeforeB)) =>
        LET n == CollisionNormal(BeforeA, BeforeB)
        IN  /\ n.distance # 0
            /\ GetMass(BeforeA) + GetMass(BeforeB) # 0
            /\ n.nx # 0 \/ n.ny # 0
            /\ ~Coincident(AfterA, AfterB)

\* C9 witness: a pair with coincident centres that HandleCollision has taken
\* apart
C9_Witness ==
    /\ op = "Collide"
    /\ Coincident(BeforeA, BeforeB)
    /\ AfterA.X > AfterB.X
    /\ AfterA.Y = AfterB.Y

\* C10: every ball has Radius > 0 and GetMass() > 0, whatever the arguments
\* it was built with and whatever has happened to it since.
C10_PositiveRadiusAndMass ==
    \A i \in BallIds : balls[i].Radius > 0 /\ GetMass(balls[i]) > 0

Buttons == {"StartAll", "StopAll", "ResetAll"}

\* C11: a tick is atomic with respect to the UI callbacks: whenever Start
\* All, Stop All or Reset All has just run, the ticker goroutine is between
\* two ticks, never between two steps of one
C11_TickAtomic == op \in Buttons => pc = "idle"

\* The human's part of a tick has just run
HumanStepped == op = "Human"

\* The human was active, not exploding and on an animated ball at the
\* collision check of the last human step
Overlapped == HumanStepped /\ ev.died

\* C12: each time an active, non-exploding human overlaps an animated ball
\* at the collision check it explodes once: Deaths goes up by exactly 1 and
\* the human is inactive and exploding; Deaths does not change in the ticks
\* in which it is exploding; the explosion lasts until the 180th tick,
\* counted from the tick of the explosion, whose UpdateExplosion makes the
\* human active again, and 180 ticks after the explosion the human is
\* active and not exploding
C12_ExplodesOnce ==
    HumanStepped =>
        /\ Overlapped =>
              /\ human.Deaths = hprev.Deaths + 1
              /\ ~human.IsActive /\ human.IsExploding
        /\ hprev.IsExploding => human.Deaths = hprev.Deaths
        /\ (sinceDeath >= 0 /\ sinceDeath < RespawnFrames - 1) =>
              ~human.IsActive /\ human.IsExploding
        /\ sinceDeath = RespawnFrames - 1 => ev.respawned
        /\ sinceDeath \in {RespawnFrames - 1, RespawnFrames} =>
              human.IsActive /\ ~human.IsExploding

C12_Witness ==
    /\ HumanStepped
    /\ sinceDeath = RespawnFrames
    /\ human.Deaths = 1
    /\ human.IsActive /\ ~human.IsExploding

\* The clearance the human would have from ball i at place c
ClearanceFrom(c, i) ==
    Dist(c[1] - balls[i].X, c[2] - balls[i].Y) - balls[i].Radius - human.Size

AnimatedBalls == { i \in BallIds : balls[i].IsAnimated }

\* The least clearance at place c is no more than the least clearance at
\* place p, over the animated balls
NoSaferThan(c, p) ==
    \A i \in AnimatedBalls : \E j \in AnimatedBalls : ClearanceFrom(c, j) <= ClearanceFrom(p, i)

GridIndex == 0..(GridSize - 1)

C13_WitnessNone ==
    /\ HumanStepped /\ ev.respawned
    /\ AnimatedBalls = {}

\* The ball UpdateShooting aimed at in the last human step: the closest to
\* the human where it stood after its move
Target == prev[findClosestBall(human, prev)]

\* The bullet's velocity is along (dx, dy), as far as hundredths tell
Along(vx, vy, dx, dy) ==
    /\ Abs(vx * dy - vy * dx) <= 6 * (Abs(dx) + Abs(dy))
    /\ vx * dx + vy * dy > 0

\* C14: every bullet NewBullet creates has a velocity of magnitude 8 that
\* points from its spawn point to its target, wherever the human and the
\* target are, a target on the firing circle included
C14_BulletVelocity ==
    (HumanStepped /\ ev.shot) =>
        /\ ~ev.new.NaN
        /\ Abs(Dist(ev.new.VX, ev.new.VY) - BulletSpeed) <= 6
        /\ Along(ev.new.VX, ev.new.VY, Target.X - ev.new.X, Target.Y - ev.new.Y)

\* Bullet i as it was before the last human step, advanced by its velocity
Advanced(i) == [bprev[i] EXCEPT !.X = bprev[i].X + bprev[i].VX,
                                !.Y = bprev[i].Y + bprev[i].VY]

Flying == { bullets[i] : i \in DOMAIN bullets }

\* The bullet is on an animated ball as the balls were before the human step
OnBall(bullet) ==
    \E j \in BallIds :
        /\ prev[j].IsAnimated
        /\ Dist(bullet.X - prev[j].X, bullet.Y - prev[j].Y) < prev[j].Radius + BulletRadius

Outside(bullet) ==
    \/ bullet.X < 0 \/ bullet.X > BoundsWidth
    \/ bullet.Y < 0 \/ bullet.Y > BoundsHeight

\* C15: in every tick, every active bullet spawned in an earlier tick
\* advances by exactly its velocity, whatever the state of the human: after
\* the human's part of the tick the advanced bullet is in the list, unless
\* it has left the arena or is on a ball, and a bullet that has left the
\* arena is not in the list
C15_BulletsAdvance ==
    HumanStepped =>
        \A i \in DOMAIN bprev :
            (bprev[i].IsActive /\ ~bprev[i].NaN) =>
                /\ Advanced(i) \in Flying \/ Outside(Advanced(i)) \/ OnBall(Advanced(i))
                /\ Outside(Advanced(i)) => Advanced(i) \notin Flying

\* The bullets the collision check of the last human step went through: the
\* bullets of before the step where UpdateBullets left them, and the bullet
\* shot in the step; none while the human is not active
Checked ==
    IF hprev.IsActive
    THEN UpdateBullets(bprev) \o (IF ev.shot THEN << ev.new >> ELSE << >>)
    ELSE << >>

\* The bullet is within ball j's radius plus its own of ball j's centre
Touches(bullet, j) ==
    /\ prev[j].IsAnimated
    /\ bullet.IsActive /\ ~bullet.NaN
    /\ Dist(bullet.X - prev[j].X, bullet.Y - prev[j].Y) < prev[j].Radius + BulletRadius

\* The checked bullets that hit ball j: it is the first ball they touch
Hitters(j) ==
    { i \in DOMAIN Checked :
        /\ Touches(Checked[i], j)
        /\ \A j2 \in BallIds : j2 < j => ~Touches(Checked[i], j2) }

\* From checked bullet i to the centre of ball j
Inward(i, j) == << prev[j].X - Checked[i].X, prev[j].Y - Checked[i].Y >>

InwardLength(i, j) == Dist(Inward(i, j)[1], Inward(i, j)[2])

\* The velocity change of ball j in the last human step
Change(j) == << balls[j].VX - prev[j].VX, balls[j].VY - prev[j].VY >>

\* Hit bullets are gone from the list and a ball no bullet hit is as it was
HitsRemoved ==
    /\ \A i \in DOMAIN Checked :
          (\E j \in BallIds : i \in Hitters(j)) <=> Checked[i] \notin Flying
    /\ \A j \in BallIds : Hitters(j) = {} => balls[j] = prev[j]

\* C16 as stated: a bullet that hits an animated ball is removed, changes no
\* other ball, the ball's velocity change points from the bullet toward the
\* ball's centre, and the ball's speed afterwards is at most 8
C16_BulletHit ==
    HumanStepped =>
        /\ HitsRemoved
        /\ \A j \in BallIds : \A i \in Hitters(j) :
              Hitters(j) = {i} =>
                  /\ Along(Change(j)[1], Change(j)[2], Inward(i, j)[1], Inward(i, j)[2])
                  /\ Dist(balls[j].VX, balls[j].VY) <= MaxBallSpeed + 1

\* Ball j's velocity before the hit plus 0.8 times the unit vector from
\* bullet i to its centre, times the length of that vector
PushedBy(i, j) ==
    << (prev[j].VX * InwardLength(i, j) + RepulsionStrength * Inward(i, j)[1]) \div Scale,
       (prev[j].VY * InwardLength(i, j) + RepulsionStrength * Inward(i, j)[2]) \div Scale >>

\* Ball j has the pushed velocity, which is no faster than 8
PushedOnly(i, j) ==
    /\ Abs(Change(j)[1] * InwardLength(i, j) - RepulsionStrength * Inward(i, j)[1])
          <= 2 * InwardLength(i, j)
    /\ Abs(Change(j)[2] * InwardLength(i, j) - RepulsionStrength * Inward(i, j)[2])
          <= 2 * InwardLength(i, j)
    /\ Dist(balls[j].VX, balls[j].VY) <= MaxBallSpeed + 1

\* The pushed velocity is faster than 8 and ball j has its direction at
\* speed 8
PushedAndLimited(i, j) ==
    /\ Dist(PushedBy(i, j)[1], PushedBy(i, j)[2]) * Scale
          >= (MaxBallSpeed - 1) * InwardLength(i, j)
    /\ Abs(Dist(balls[j].VX, balls[j].VY) - MaxBallSpeed) <= 6
    /\ Along(balls[j].VX, balls[j].VY, PushedBy(i, j)[1], PushedBy(i, j)[2])

\* C16, amended: a bullet that hits an animated ball is removed and changes
\* no other ball; a bullet exactly at the ball's centre leaves the ball as
\* it was; otherwise 0.8 times the unit vector from the bullet toward the
\* ball's centre is added to the ball's velocity and the result is scaled
\* down to speed 8 if it is faster, so that the ball's speed afterwards is
\* at most 8 and its velocity change points from the bullet toward the
\* centre when no scaling was needed
C16_BulletHitAmended ==
    HumanStepped =>
        /\ HitsRemoved
        /\ \A j \in BallIds : \A i \in Hitters(j) :
              Hitters(j) = {i} =>
                  IF InwardLength(i, j) = 0
                  THEN Change(j) = << 0, 0 >>
                  ELSE /\ PushedOnly(i, j) \/ PushedAndLimited(i, j)
                       /\ PushedOnly(i, j) =>
                             Along(Change(j)[1], Change(j)[2], Inward(i, j)[1], Inward(i, j)[2])

\* A bullet has hit a ball obliquely and the speed limit has turned the
\* ball's velocity change away from the line from the bullet to the centre
C16_Witness ==
    /\ HumanStepped
    /\ \E j \in BallIds : \E i \in Hitters(j) :
          /\ Hitters(j) = {i}
          /\ InwardLength(i, j) > 0
          /\ PushedAndLimited(i, j)
          /\ ~Along(Change(j)[1], Change(j)[2], Inward(i, j)[1], Inward(i, j)[2])

\* The human's part of a tick, with the human active and a ball animated
ShootingStep ==
    /\ pc = "human" /\ pc' = "dragon"
    /\ human.IsActive
    /\ AnimatedBalls # {}

\* C17: while the human is active and a ball is animated, the shoot timer
\* goes down by one in every tick, no bullet is spawned in a tick that the
\* timer starts above zero, and a shot comes ShootCooldown = 15 ticks after
\* the shot before it
C17_ShootCadence ==
    [][ShootingStep =>
          /\ human.ShootTimer > 0 =>
                ~ev'.shot /\ human'.ShootTimer = human.ShootTimer - 1
          /\ (ev'.shot /\ sinceShot >= 0 /\ sinceDeath = -1) =>
                sinceShot + 1 = ShootCooldown]_vars

\* calculateAvoidance of the last human step: Human.Update calls it with the
\* human where the step found it and the balls where the tick had moved them
Avoid == calculateAvoidance(hprev, prev)

\* The human went through Human.Update in the last human step
Updated == HumanStepped /\ hprev.IsActive

\* Ball j, animated and within the danger radius of the human, is at one of
\* the frames ahead nearer to the human than factor times its distance now
ComesNearer(j, factor) ==
    /\ prev[j].IsAnimated
    /\ HumanDistance(hprev, prev[j]) < hprev.Size + prev[j].Radius + DangerMargin
    /\ \E t \in Horizons :
          Scale * Dist(hprev.X - (prev[j].X + prev[j].VX * t),
                       hprev.Y - (prev[j].Y + prev[j].VY * t))
              < factor * HumanDistance(hprev, prev[j])

\* Ball j is within four fifths of the danger radius, where its push on the
\* human is more than a hundredth of a unit
Felt(j) ==
    5 * HumanDistance(hprev, prev[j]) <= 4 * (hprev.Size + prev[j].Radius + DangerMargin)

\* The avoidance vector points from ball j to the human
AwayFrom(j) == Along(Avoid.x, Avoid.y, hprev.X - prev[j].X, hprev.Y - prev[j].Y)

\* C18 as stated: an animated ball within the danger radius that is nearer
\* to the human at 5, 10, 15 or 20 ticks ahead than it is now makes
\* calculateAvoidance return a non-zero vector, which with a single such
\* ball points from the ball to the human
C18_Avoidance ==
    Updated =>
        \A j \in BallIds :
            (ComesNearer(j, Scale) /\ Felt(j)) =>
                /\ << Avoid.x, Avoid.y >> # << 0, 0 >>
                /\ (\A j2 \in BallIds : ComesNearer(j2, Scale) => j2 = j) => AwayFrom(j)

\* C18, amended: the balls treated as approaching threats are the animated
\* balls within the danger radius whose distance at 5, 10, 15 or 20 ticks
\* ahead is less than 0.8 times their distance now; with a single such ball
\* calculateAvoidance returns a non-zero vector that points from the ball to
\* the human, and with no such ball it returns the zero vector
C18_AvoidanceAmended ==
    Updated =>
        /\ \A j \in BallIds :
              (ComesNearer(j, ApproachFactor) /\ Felt(j)
                  /\ \A j2 \in BallIds : ComesNearer(j2, ApproachFactor) => j2 = j) =>
                  /\ << Avoid.x, Avoid.y >> # << 0, 0 >>
                  /\ AwayFrom(j)
        /\ (\A j \in BallIds : ~ComesNearer(j, ApproachFactor)) =>
              << Avoid.x, Avoid.y >> = << 0, 0 >>

\* One ball comes at the human obliquely and the human is pushed away
C18_Witness ==
    /\ Updated
    /\ \E j \in BallIds :
          /\ ComesNearer(j, ApproachFactor) /\ Felt(j)
          /\ \A j2 \in BallIds : ComesNearer(j2, ApproachFactor) => j2 = j
          /\ prev[j].X # hprev.X /\ prev[j].Y # hprev.Y
          /\ AwayFrom(j)

\* A ball comes nearer, but too slowly to count, and the human stays
C18_WitnessSlow ==
    /\ Updated
    /\ \E j \in BallIds : ComesNearer(j, Scale) /\ Felt(j)
    /\ \A j \in BallIds : ~ComesNearer(j, ApproachFactor)
    /\ << Avoid.x, Avoid.y >> = << 0, 0 >>

\* How far the last human step has moved the human
Displacement == Dist(human.X - hprev.X, human.Y - hprev.Y)

\* C19: in a tick where the largest danger score calculateAvoidance sees is
\* above 0.4 (1.5x boost) or above 0.7 (2x boost), Human.Update moves the
\* human further than its base Speed of 4.5, by more than the rounding of
\* hundredths
C19_PanicBoost ==
    (Updated /\ Avoid.maxDanger > ModerateDanger) => Displacement > HumanSpeed + 2

\* Where the move of Human.Update took the human in the last human step,
\* before the bounds step
MovedTo == << hprev.X + TotalForce(hprev, prev)[1], hprev.Y + TotalForce(hprev, prev)[2] >>

\* Half the human's size, the margin of the bounds step
HalfSize == human.Size \div 2

\* The human is where the bounds step puts a human moved to (x, y)
BoundsKept(x, y) ==
    /\ human.Y >= HalfSize /\ human.Y <= BoundsHeight - HalfSize
    /\ (y >= HalfSize /\ y <= BoundsHeight - HalfSize) => human.Y = y
    /\ x < -HalfSize => human.X = BoundsWidth + HalfSize
    /\ x > BoundsWidth + HalfSize => human.X = -HalfSize
    /\ (x >= -HalfSize /\ x <= BoundsWidth + HalfSize) => human.X = x

\* C20: after every Human.Update the human's Y is between Size/2 and
\* Height - Size/2, a Y the move left in that range is unchanged, a move
\* that took X below -Size/2 leaves the human at Width + Size/2, a move that
\* took X above Width + Size/2 leaves it at -Size/2, and any other X is
\* unchanged by the bounds step
C20_WithinBounds == Updated => BoundsKept(MovedTo[1], MovedTo[2])

\* The move took the human out on the left and it is back on the right
C20_Witness ==
    /\ Updated
    /\ MovedTo[1] < -HalfSize
    /\ human.X = BoundsWidth + HalfSize

\* The move took the human out on the right and it is back on the left
C20_WitnessRight ==
    /\ Updated
    /\ MovedTo[1] > BoundsWidth + HalfSize
    /\ human.X = -HalfSize

\* The move took the human above the top and it was stopped there
C20_WitnessTop ==
    /\ Updated
    /\ MovedTo[2] < HalfSize
    /\ human.Y = HalfSize

\* The move took the human below the bottom and it was stopped there
C20_WitnessBottom ==
    /\ Updated
    /\ MovedTo[2] > BoundsHeight - HalfSize
    /\ human.Y = BoundsHeight - HalfSize

\* The dragon's step has called HandleBallCollision on ball struck
DragonStruck == op = "Dragon" /\ struck # 0

\* The dragon and the ball it struck were not at the very same place
ApartFromStruck == dprev.X # prev[struck].X \/ dprev.Y # prev[struck].Y

\* C24: after Dragon.HandleBallCollision (human present, non-zero distance)
\* the ball's Radius and OriginalRadius are half of what they were before the
\* collision.
C24_HalvesBall ==
    (DragonStruck /\ ApartFromStruck) =>
        /\ 2 * balls[struck].Radius = prev[struck].Radius
        /\ 2 * balls[struck].OriginalRadius = prev[struck].OriginalRadius


\* The dragon's step has run Dragon.Update
DragonStepped == op = "Dragon" /\ dprev.IsActive

\* The dragon as the last dragon step's keepWithinBounds found it
Unbounded == DragonUpdate(dprev, prev, human).moved

\* margin := d.Size * 0.5
Margin == dprev.Size \div 2

PastLeft == Unbounded.X < Margin
PastRight == Unbounded.X > BoundsWidth - Margin
PastTop == Unbounded.Y < ButtonArea + Margin
PastBottom == Unbounded.Y > BoundsHeight - ButtonArea - Margin

\* C22 as claimed: when the dragon's position passes a wall margin,
\* keepWithinBounds clamps the position onto the margin and negates the
\* velocity component on that axis (same magnitude, opposite sign).
C22_ElasticWalls ==
    DragonStepped =>
        /\ PastLeft => dragon.X = Margin /\ dragon.VX = -Unbounded.VX
        /\ PastRight => dragon.X = BoundsWidth - Margin /\ dragon.VX = -Unbounded.VX
        /\ PastTop => dragon.Y = ButtonArea + Margin /\ dragon.VY = -Unbounded.VY
        /\ PastBottom =>
              dragon.Y = BoundsHeight - ButtonArea - Margin /\ dragon.VY = -Unbounded.VY

\* The velocity component v after a wall that a positive (towards = 1) or a
\* negative (towards = -1) component runs into
Bounced(v, towards) == IF v * towards > 0 THEN Mul(-v, 50) ELSE v

\* C22: when the dragon's position passes a wall margin (Size/2 from the left
\* and right walls, 50 + Size/2 from the top and bottom), keepWithinBounds
\* clamps the position onto the margin and, if the velocity component on that
\* axis points at that wall, reverses it at half its magnitude; a component
\* that points away from the wall is left as it is.
C22_DampedWalls ==
    DragonStepped =>
        /\ PastLeft => dragon.X = Margin /\ dragon.VX = Bounced(Unbounded.VX, -1)
        /\ PastRight =>
              dragon.X = BoundsWidth - Margin /\ dragon.VX = Bounced(Unbounded.VX, 1)
        /\ PastTop =>
              dragon.Y = ButtonArea + Margin /\ dragon.VY = Bounced(Unbounded.VY, -1)
        /\ PastBottom =>
              /\ dragon.Y = BoundsHeight - ButtonArea - Margin
              /\ dragon.VY = Bounced(Unbounded.VY, 1)

\* The dragon ran into the left wall and was turned round
C22_Witness == DragonStepped /\ PastLeft /\ Unbounded.VX < 0 /\ dragon.VX > 0

C22_WitnessRight == DragonStepped /\ PastRight /\ Unbounded.VX > 0 /\ dragon.VX < 0

C22_WitnessTop == DragonStepped /\ PastTop /\ Unbounded.VY < 0 /\ dragon.VY > 0

C22_WitnessBottom == DragonStepped /\ PastBottom /\ Unbounded.VY > 0 /\ dragon.VY < 0


\* The last dragon step ran updateProtecting with an active human
Protected ==
    /\ DragonStepped
    /\ ~dprev.IsDrifting /\ ~dprev.IsSpinning /\ struck = 0
    /\ human.IsActive

\* Ball i is animated, within ProtectRadius of the human, and its velocity
\* has a positive dot product with the direction to the human
Threat(i) ==
    /\ prev[i].IsAnimated
    /\ Dist(human.X - prev[i].X, human.Y - prev[i].Y) <= ProtectRadius
    /\ prev[i].VX * (human.X - prev[i].X) + prev[i].VY * (human.Y - prev[i].Y) > 0

Threats == { i \in BallIds : Threat(i) }

FromDragon(i) == Dist(prev[i].X - dprev.X, prev[i].Y - dprev.Y)

\* The velocity is set toward a threat that no threat is nearer to the dragon
\* than
TowardNearest ==
    \E i \in Threats :
        /\ \A j \in Threats : FromDragon(i) <= FromDragon(j)
        /\ Along(Unbounded.VX, Unbounded.VY, prev[i].X - dprev.X, prev[i].Y - dprev.Y)

FromHuman == Dist(human.X - dprev.X, human.Y - dprev.Y)

\* The speed updateProtecting set, which a unit vector in hundredths puts up
\* to 2 off
SetSpeed == Dist(Unbounded.VX, Unbounded.VY)

TowardHuman == Along(Unbounded.VX, Unbounded.VY, human.X - dprev.X, human.Y - dprev.Y)

AwayFromHuman == Along(Unbounded.VX, Unbounded.VY, dprev.X - human.X, dprev.Y - human.Y)

\* The dragon neither makes for the human nor backs away: it has no more
\* speed than it had
Holds == SetSpeed <= Dist(dprev.VX, dprev.VY)

\* C23 as claimed: in the protecting state with an active human, if a threat
\* (animated, within ProtectRadius of the human, positive dot product) exists
\* the velocity is set toward the threat nearest to the dragon; otherwise the
\* dragon moves toward the human when farther than FollowDistance + 20, away
\* when nearer than FollowDistance - 20, and holds otherwise; and with no
\* threats its speed never exceeds Speed.
C23_Protecting ==
    Protected =>
        IF Threats # {} THEN TowardNearest
        ELSE /\ FromHuman > FollowDistance + 2000 => TowardHuman
             /\ FromHuman < FollowDistance - 2000 => (FromHuman > 0 => AwayFromHuman)
             /\ (FromHuman >= FollowDistance - 2000 /\ FromHuman <= FollowDistance + 2000)
                    => Holds
             /\ SetSpeed <= DragonSpeed + 2

\* C23: the same, but between FollowDistance - 20 and FollowDistance + 20
\* the dragon keeps nine tenths of the velocity it had, which after an
\* interception (at 1.2 times Speed) is above Speed; its speed never exceeds
\* Speed when it moves toward or away from the human.
C23_ProtectingAmended ==
    Protected =>
        IF Threats # {} THEN TowardNearest
        ELSE /\ FromHuman > FollowDistance + 2000 =>
                    TowardHuman /\ SetSpeed <= DragonSpeed + 2
             /\ (FromHuman < FollowDistance - 2000 /\ FromHuman > 0) =>
                    AwayFromHuman /\ SetSpeed <= DragonSpeed + 2
             /\ (FromHuman >= FollowDistance - 2000 /\ FromHuman <= FollowDistance + 2000)
                    => /\ Unbounded.VX = Mul(dprev.VX, 90)
                       /\ Unbounded.VY = Mul(dprev.VY, 90)

\* Two balls threaten the human and the dragon makes for the one nearer to
\* itself, which is the one farther from the human
C23_Witness ==
    /\ Protected
    /\ \E i, j \in Threats :
          /\ FromDragon(i) < FromDragon(j)
          /\ HumanDistance(human, prev[i]) > HumanDistance(human, prev[j])
          /\ Along(Unbounded.VX, Unbounded.VY, prev[i].X - dprev.X, prev[i].Y - dprev.Y)

\* No ball threatens the human and the dragon makes for it
C23_WitnessFollow == Protected /\ Threats = {} /\ FromHuman > 10000 /\ TowardHuman

\* No ball threatens the human and the dragon backs away from it
C23_WitnessAway == Protected /\ Threats = {} /\ FromHuman < 6000 /\ AwayFromHuman

\* No ball threatens the human and the dragon holds, faster than Speed
C23_WitnessHold ==
    /\ Protected /\ Threats = {}
    /\ FromHuman >= 6000 /\ FromHuman <= 10000
    /\ SetSpeed > DragonSpeed + 2

\* A ball that Stop All has stopped is coming at the human and the dragon
\* leaves it alone
C23_WitnessStopped ==
    /\ Protected /\ Threats = {}
    /\ \E i \in BallIds : ~prev[i].IsAnimated /\ IsThreateningStopped(dprev, prev[i], human)


\* C30: the dragon is never drifting and spinning at once, and while it is
\* spinning its velocity is zero, so that a tick it spends spinning leaves it
\* where it was.
C30_DriftOrSpin ==
    /\ ~(dragon.IsDrifting /\ dragon.IsSpinning)
    /\ dragon.IsSpinning => dragon.VX = 0 /\ dragon.VY = 0
    /\ (DragonStepped /\ dprev.IsSpinning /\ ~dragon.IsDrifting) =>
           dragon.X = dprev.X /\ dragon.Y = dprev.Y

\* A drift in which the dragon was moving has ended and the spin has begun
C30_Witness ==
    /\ DragonStepped
    /\ dprev.IsDrifting /\ (dprev.VX # 0 \/ dprev.VY # 0)
    /\ dragon.IsSpinning

\* A spinning dragon has struck a ball and drifts
C30_WitnessStruck == DragonStepped /\ dprev.IsSpinning /\ dragon.IsDrifting

\* Reset All was pressed while the dragon was drifting
C30_WitnessReset == op = "ResetAll" /\ dragon.IsDrifting


\* C29: the human is never active and exploding at once: IsExploding implies
\* not IsActive, and IsExploding implies 0 < RespawnTimer <= 180, in every
\* state reached through ticks, Toggle Human and Reset All.
C29_ExplodingInactive ==
    human.IsExploding =>
        /\ ~human.IsActive
        /\ 0 < human.RespawnTimer
        /\ human.RespawnTimer <= 180

\* A ball has hit the human in this tick and it explodes
C29_Witness == HumanStepped /\ ev.died /\ human.IsExploding /\ hprev.IsActive

\* Toggle Human was pressed during the explosion
C29_WitnessToggle == op = "ToggleHuman" /\ hprev.IsExploding /\ human.IsExploding

\* Toggle Human has switched the human off and on
C29_WitnessSwitched == op = "ToggleHuman" /\ hprev.IsActive # human.IsActive

\* Reset All was pressed during the explosion
C29_WitnessReset == op = "ResetAll" /\ hprev.IsExploding /\ human.IsActive

\* The explosion has ended and the human has respawned
C29_WitnessRespawn == HumanStepped /\ ev.respawned /\ human.IsActive


\* The balls of Run, animated
Started == [i \in BallIds |-> Animate(<< Ball1, Ball2, Ball3 >>[i])]

\* Every ball has the position, velocity and radius Run gave it
BallsAsStarted ==
    \A i \in BallIds :
        /\ balls[i].X = Started[i].X /\ balls[i].Y = Started[i].Y
        /\ balls[i].VX = Started[i].VX /\ balls[i].VY = Started[i].VY
        /\ balls[i].Radius = Started[i].Radius

\* The human is as Run built it and has no bullet in flight
HumanAsStarted ==
    /\ human.X = Human1.X /\ human.Y = Human1.Y
    /\ human.IsActive = Human1.IsActive /\ human.IsExploding = Human1.IsExploding
    /\ human.RespawnTimer = Human1.RespawnTimer
    /\ human.Deaths = Human1.Deaths
    /\ human.ShootTimer = Human1.ShootTimer
    /\ bullets = << >>

\* The dragon is where Run put it, at rest, neither drifting nor spinning
DragonAsStarted ==
    /\ dragon.X = Dragon1.X /\ dragon.Y = Dragon1.Y
    /\ dragon.VX = Dragon1.VX /\ dragon.VY = Dragon1.VY
    /\ dragon.IsDrifting = Dragon1.IsDrifting /\ dragon.DriftTimer = Dragon1.DriftTimer
    /\ dragon.IsSpinning = Dragon1.IsSpinning
    /\ dragon.SpinAngle = Dragon1.SpinAngle /\ dragon.SpinCount = Dragon1.SpinCount

\* C25: after resetAll, whatever came before, every ball's position, velocity
\* and radius, the human's position, flags, respawn timer, death count,
\* bullets and shoot timer, and the dragon's position, velocity and
\* drift/spin state equal their values right after start-up.
C25_ResetAll == op = "ResetAll" => BallsAsStarted /\ HumanAsStarted /\ DragonAsStarted


\* Stop All has stopped every ball
AllStopped == \A i \in BallIds : ~balls[i].IsAnimated

\* C26: from the moment every ball has IsAnimated = false until Start All is
\* pressed, no ball's X, Y, VX or VY changes, across any number of ticks.
C26_StopAllPauses ==
    [][(AllStopped /\ AllStopped') =>
          \A i \in BallIds :
              /\ balls'[i].X = balls[i].X /\ balls'[i].Y = balls[i].Y
              /\ balls'[i].VX = balls[i].VX /\ balls'[i].VY = balls[i].VY]_vars


\* The walls that Update, having moved ball p, finds it at
AtLeft(p) == (p.X + p.VX) - p.Radius <= 0
AtRight(p) == (p.X + p.VX) + p.Radius >= BoundsWidth
AtTop(p) == (p.Y + p.VY) - p.Radius <= ButtonArea
AtBottom(p) == (p.Y + p.VY) + p.Radius >= BoundsHeight - ButtonArea

\* C28: whenever Ball.Update reverses a velocity component because of wall
\* contact, the component afterwards points into the arena: VX >= 0 after a
\* left contact, VX <= 0 after a right one, VY >= 0 after a top contact and
\* VY <= 0 after a bottom one, whatever the velocity was at the contact.
C28_BounceInward ==
    op = "Update" =>
        \A i \in BallIds :
            prev[i].IsAnimated =>
                /\ AtLeft(prev[i]) => balls[i].VX >= 0
                /\ AtRight(prev[i]) => balls[i].VX <= 0
                /\ AtTop(prev[i]) => balls[i].VY >= 0
                /\ AtBottom(prev[i]) => balls[i].VY <= 0


\* The last Update found ball i at no wall: no component reversed, no jiggle
\* triggered
FreeUpdate(i) == op = "Update" /\ ~AtWallX(prev[i]) /\ ~AtWallY(prev[i])

Protecting == ~dragon.IsDrifting /\ ~dragon.IsSpinning

\* HandleBallCollision has begun a drift, of which the step that begins it
\* is the first tick
DriftBegun ==
    (struck # 0 /\ ApartFromStruck) =>
        dragon.IsDrifting /\ dragon.DriftTimer = DriftDuration \div 2 - 1

\* A tick of the drift: friction and no steering, one tick less to go
DriftGoesOn ==
    (dprev.IsDrifting /\ dprev.DriftTimer > 1) =>
        /\ dragon.IsDrifting /\ ~dragon.IsSpinning
        /\ dragon.DriftTimer = dprev.DriftTimer - 1
        /\ Unbounded.VX = Mul(dprev.VX, Friction)
        /\ Unbounded.VY = Mul(dprev.VY, Friction)

\* The last tick of the drift: the dragon stops and begins to spin
DriftEnds ==
    (dprev.IsDrifting /\ dprev.DriftTimer <= 1) =>
        /\ ~dragon.IsDrifting /\ dragon.IsSpinning
        /\ dragon.VX = 0 /\ dragon.VY = 0

\* A tick of the spin: the dragon stays in place, spinning, until its last
\* rotation is counted
SpinGoesOn ==
    dprev.IsSpinning =>
        /\ ~dragon.IsDrifting
        /\ dragon.VX = 0 /\ dragon.VY = 0
        /\ dragon.IsSpinning \/
               (dprev.SpinAngle + 1 >= SpinSteps /\ dprev.SpinCount + 1 >= SpinTarget)

C21_Sequence == DragonStepped => DriftBegun /\ DriftGoesOn /\ DriftEnds /\ SpinGoesOn

C21_Returns == dragon.IsDrifting ~> Protecting

\* C21: after a dragon-ball collision the dragon drifts for DriftDuration/2
\* ticks with friction and no steering, then its velocity is zero and it
\* spins in place until SpinTarget rotations are counted, and only then does
\* it steer again; and a dragon that has entered drift eventually returns
\* to the protecting state.
C21_DriftSpinProtect == []C21_Sequence /\ C21_Returns


====
